---------------------------- MODULE Spec2Model ----------------------------
(***************************************************************************)
(* A model of containerimage-py: the reference grammar and parser, the     *)
(* registry client's request state machine, credential selection and the   *)
(* size accounting of manifests, manifest lists and image lists.           *)
(*                                                                         *)
(* Strings are sequences of one-character strings, so that the splits,     *)
(* joins and pattern matches of the source are computed, not assumed.      *)
(***************************************************************************)
EXTENDS Integers, Sequences, FiniteSets, TLC

VARIABLES
    ref,        \* reference spec: the reference under test and how it was built
    call,       \* reference spec: the method of ContainerImageReference last called
    result,     \* reference spec: what that method returned or raised
    auths,      \* the "auths" object of the docker config JSON, in key order
    authRef,    \* credential spec: the reference get_registry_auth was called on
    authOut,    \* credential spec: what get_registry_auth returned or raised
    pc,         \* client spec: position of the running registry operation
    op,         \* client spec: the running operation (kind, implementation, ref)
    nSent,      \* client spec: how often the original request was sent
    nToken,     \* client spec: how often the token service was queried
    reqs,       \* client spec: the HTTP requests sent so far, with their headers
    first,      \* client spec: the first response to the original request
    tok,        \* client spec: the token service's response
    final,      \* client spec: the last response to the original request
    outcome,    \* client spec: how the operation ended
    existsOut,  \* client spec: what ContainerImage.exists gave its caller
    doc,        \* size specs: the manifest or manifest list under computation
    images,     \* list spec: the images of the ContainerImageList, as the
                \*   documents their manifest requests return
    szPc,       \* size specs: position of the running get_size
    szAcc,      \* fat spec: configs, layers, entry_sizes and the loop index
    fetched,    \* fat spec: the child manifests requested so far, in order
    szOut,      \* size specs: what get_size returned or raised
    raw,        \* document specs: the JSON document handed to the library
    made,       \* document specs: what the factory or validator made of it
    resp,       \* digest spec: the successful manifest response
    digestOut,  \* digest spec: what get_digest returned or raised
    cur,        \* diff spec: the images of the receiver list
    prev,       \* diff spec: the images of the argument list
    diffOut,    \* diff spec: the ContainerImageListDiff, or the error
    desc,       \* descriptor spec: the document handed to ContainerImageDescriptor
    descOut,    \* descriptor spec: whether the constructor returned or raised
    pman,       \* platform spec: the manifest get_manifest returned, and the image's config
    env,        \* platform spec: HOST_OS and HOST_ARCH at import time
    platOut,    \* platform spec: what the operation returned or raised
    dl,         \* delete spec: the images of the ContainerImageList
    dAuth,      \* delete spec: the docker config JSON handed to delete
    dpc,        \* delete spec: idle, running or done
    dIdx,       \* delete spec: the image the loop is at
    dReqs,      \* delete spec: the DELETE requests sent so far
    dOps,       \* delete spec: how each image's delete ended so far
    dOut        \* delete spec: what delete returned or raised

refVars    == <<ref, call, result>>
authVars   == <<auths, authRef, authOut>>
clientVars == <<pc, op, nSent, nToken, reqs, first, tok, final, outcome, existsOut>>
sizeVars   == <<doc, images, szPc, szAcc, fetched, szOut>>
docVars    == <<raw, made>>
digestVars == <<resp, digestOut>>
diffVars   == <<cur, prev, diffOut>>
descriptorVars == <<desc, descOut>>
platformVars == <<pman, env, platOut>>
deleteVars == <<dl, dAuth, dpc, dIdx, dReqs, dOps, dOut>>
libVars    == <<docVars, digestVars, diffVars, descriptorVars, platformVars, deleteVars>>
vars       == <<ref, call, result, auths, authRef, authOut,
                pc, op, nSent, nToken, reqs, first, tok, final, outcome,
                existsOut,
                doc, images, szPc, szAcc, fetched, szOut,
                raw, made, resp, digestOut, cur, prev, diffOut, desc,
                descOut, pman, env, platOut, dl, dAuth, dpc, dIdx, dReqs,
                dOps, dOut>>

-----------------------------------------------------------------------------
(* Bounds of the model *)

MaxPath == 2        \* path components between registry and short name
MaxAuthKeys == 2    \* keys in an auth map
MaxLayers == 2      \* layers of a manifest
MaxEntries == 2     \* entries of a manifest list
MaxImages == 2      \* images of an image list
MaxDiffImages == 2        \* images in each list given to diff
MaxPlatEntries == 2       \* entries of the fat manifest of the platform spec
MaxDeleteImages == 2      \* images of the list that is deleted
MaxListEntries == 1 \* entries of a manifest list that is part of an image list

-----------------------------------------------------------------------------
(* Characters and strings *)

Lower == {"a","b","c","d","e","f","g","h","i","j","k","l","m",
          "n","o","p","q","r","s","t","u","v","w","x","y","z"}
Upper == {"A","B","C","D","E","F","G","H","I","J","K","L","M",
          "N","O","P","Q","R","S","T","U","V","W","X","Y","Z"}
Digit == {"0","1","2","3","4","5","6","7","8","9"}
HexCh == Digit \cup {"a","b","c","d","e","f","A","B","C","D","E","F"}
WordCh == Lower \cup Upper \cup Digit \cup {"_"}

AllIn(s, S) == \A i \in 1..Len(s) : s[i] \in S
Contains(s, c) == \E i \in 1..Len(s) : s[i] = c
FirstIdx(s, c) == CHOOSE i \in 1..Len(s) : s[i] = c /\ \A j \in 1..(i-1) : s[j] # c
StartsWith(s, p) == Len(p) <= Len(s) /\ SubSeq(s, 1, Len(p)) = p
Last(q) == q[Len(q)]

\* str.split(c): the pieces of s between the occurrences of c
RECURSIVE Split(_, _)
Split(s, c) ==
    IF ~Contains(s, c) THEN <<s>>
    ELSE LET i == FirstIdx(s, c)
         IN  <<SubSeq(s, 1, i-1)>> \o Split(SubSeq(s, i+1, Len(s)), c)

\* c.join(parts)
RECURSIVE Join(_, _)
Join(parts, c) ==
    IF Len(parts) = 0 THEN <<>>
    ELSE IF Len(parts) = 1 THEN parts[1]
    ELSE parts[1] \o <<c>> \o Join(Tail(parts), c)

Rep(c, n) == [i \in 1..n |-> c]

-----------------------------------------------------------------------------
(* The reference grammar (image/regex.py), as membership tests *)

HEX_MIN == 32
TAG_MAX == 128

SepCh == {".", "_", "-"}
AlphaNumCh == Lower \cup Digit

\* NAME_COMPONENT = [a-z0-9]+ ((?:[._]|__|[-]*) [a-z0-9]+)*
NAME_COMPONENT(s) ==
    /\ Len(s) > 0
    /\ AllIn(s, AlphaNumCh \cup SepCh)
    /\ s[1] \in AlphaNumCh
    /\ s[Len(s)] \in AlphaNumCh
    /\ \A i \in 1..(Len(s)-1) :
          (s[i] \in SepCh /\ s[i+1] \in SepCh) =>
             \/ s[i] = "-" /\ s[i+1] = "-"
             \/ /\ s[i] = "_" /\ s[i+1] = "_"
                /\ (i = 1 \/ s[i-1] \notin SepCh)
                /\ (i + 2 > Len(s) \/ s[i+2] \notin SepCh)

\* DOMAIN_COMPONENT = [a-zA-Z0-9] | [a-zA-Z0-9][a-zA-Z0-9-]*[a-zA-Z0-9]
DOMAIN_COMPONENT(s) ==
    /\ Len(s) > 0
    /\ AllIn(s, Lower \cup Upper \cup Digit \cup {"-"})
    /\ s[1] # "-"
    /\ s[Len(s)] # "-"

\* DOMAIN = DOMAIN_COMPONENT (\. DOMAIN_COMPONENT)* (:[0-9]+)?
ANCHORED_DOMAIN(s) ==
    LET ps == Split(s, ":")
    IN  /\ Len(ps) <= 2
        /\ Len(ps) = 2 => (Len(ps[2]) > 0 /\ AllIn(ps[2], Digit))
        /\ \A k \in 1..Len(Split(ps[1], ".")) : DOMAIN_COMPONENT(Split(ps[1], ".")[k])

\* NAME = (DOMAIN /)? NAME_COMPONENT (/ NAME_COMPONENT)*
ANCHORED_NAME(s) ==
    LET cs == Split(s, "/")
    IN  \/ \A k \in 1..Len(cs) : NAME_COMPONENT(cs[k])
        \/ /\ Len(cs) >= 2
           /\ ANCHORED_DOMAIN(cs[1])
           /\ \A k \in 2..Len(cs) : NAME_COMPONENT(cs[k])

\* TAG = [\w][\w.-]{0,127}
ANCHORED_TAG(s) ==
    /\ Len(s) >= 1
    /\ Len(s) <= TAG_MAX
    /\ s[1] \in WordCh
    /\ AllIn(s, WordCh \cup {".", "-"})

\* DIGEST = [A-Za-z][A-Za-z0-9]*(?:[-_+.][A-Za-z][A-Za-z0-9]*)*:[0-9a-fA-F]{32,}
ANCHORED_DIGEST(s) ==
    LET ps == Split(s, ":")
        DSep == {"-", "_", "+", "."}
    IN  /\ Len(ps) = 2
        /\ Len(ps[2]) >= HEX_MIN
        /\ AllIn(ps[2], HexCh)
        /\ Len(ps[1]) > 0
        /\ AllIn(ps[1], Lower \cup Upper \cup Digit \cup DSep)
        /\ ps[1][1] \in Lower \cup Upper
        /\ ps[1][Len(ps[1])] \notin DSep
        /\ \A i \in 1..(Len(ps[1])-1) :
              ps[1][i] \in DSep => ps[1][i+1] \in Lower \cup Upper

\* REFERENCE = NAME (:TAG)? (@DIGEST)?, anchored
REFERENCE_PAT(s) ==
    LET ats  == Split(s, "@")
        head == ats[1]
        cs   == Split(head, ":")
    IN  /\ Len(ats) <= 2
        /\ Len(ats) = 2 => ANCHORED_DIGEST(ats[2])
        /\ \/ ANCHORED_NAME(head)
           \/ /\ Len(cs) >= 2
              /\ ANCHORED_TAG(Last(cs))
              /\ ANCHORED_NAME(Join(SubSeq(cs, 1, Len(cs)-1), ":"))


-----------------------------------------------------------------------------
(* Results of calls: a value, or the exception raised *)

Ok(v)    == [ok |-> TRUE,  val |-> v,    err |-> "none"]
Raise(e) == [ok |-> FALSE, val |-> <<>>, err |-> e]

LATEST == <<"l","a","t","e","s","t">>

-----------------------------------------------------------------------------
(* ContainerImageReference (image/reference.py); ContainerImage in         *)
(* image/containerimage.py carries the same methods line for line          *)

validate_static(s) == REFERENCE_PAT(s)

\* is_digest_ref, for a reference that passed validation
is_digest_ref(s) ==
    IF ~Contains(s, "@") THEN FALSE
    ELSE ANCHORED_DIGEST(Last(Split(s, "@")))

\* is_tag_ref, for a reference that passed validation
is_tag_ref(s) ==
    IF is_digest_ref(s) THEN FALSE
    ELSE LET tag == IF Contains(s, ":") THEN Last(Split(s, ":")) ELSE LATEST
         IN  ANCHORED_TAG(tag)

get_identifier(s) ==
    IF ~validate_static(s) THEN Raise("InvalidReference")
    ELSE IF is_digest_ref(s) THEN Ok(Last(Split(s, "@")))
    ELSE IF is_tag_ref(s)
         THEN IF Contains(s, ":") THEN Ok(Last(Split(s, ":"))) ELSE Ok(LATEST)
    ELSE Raise("NotTagOrDigestRef")

get_name(s) ==
    IF ~validate_static(s) THEN Raise("InvalidReference")
    ELSE LET digestless == Split(s, "@")[1]
             tagless    == Split(digestless, ":")[1]
         IN  IF ~ANCHORED_NAME(tagless) THEN Raise("InvalidName")
             ELSE Ok(tagless)

get_registry(s) ==
    LET name == get_name(s)
    IN  IF ~name.ok THEN name
        ELSE LET registry == Split(name.val, "/")[1]
             IN  IF ~ANCHORED_DOMAIN(registry) THEN Raise("InvalidDomain")
                 ELSE Ok(registry)

get_path(s) ==
    LET name == get_name(s)
    IN  IF ~name.ok THEN name
        ELSE Ok(Join(Tail(Split(name.val, "/")), "/"))

get_short_name(s) ==
    LET name == get_name(s)
    IN  IF ~name.ok THEN name
        ELSE Ok(Last(Split(name.val, "/")))

-----------------------------------------------------------------------------
(* ContainerImageRegistryClient.get_registry_base_url (image/client.py)    *)

HTTPS == <<"h","t","t","p","s",":","/","/">>
V2    == <<"/","v","2","/">>
DOCKER_IO   == <<"d","o","c","k","e","r",".","i","o">>
REGISTRY_1_DOCKER_IO ==
    <<"r","e","g","i","s","t","r","y","-","1",".">> \o DOCKER_IO

get_registry_base_url(s) ==
    IF ~validate_static(s) THEN Raise("InvalidReference")
    ELSE LET domain_components == Split(s, "/")
             n      == Len(domain_components)
             domain == domain_components[1]
             path   == Join(SubSeq(domain_components, 2, n-1), "/")
             name   == Split(Split(domain_components[n], "@")[1], ":")[1]
             dom    == IF domain = DOCKER_IO THEN REGISTRY_1_DOCKER_IO ELSE domain
         IN  Ok(HTTPS \o dom \o V2 \o path \o <<"/">> \o name)

-----------------------------------------------------------------------------
(* The references the reference spec draws from: every reference built     *)
(* from a first segment, up to MaxPath path components, a short name, an   *)
(* optional tag and an optional digest, and some strings that are not      *)
(* references.  The pieces are kept next to the string, so that what the   *)
(* parser returns can be compared with what the string was built from.     *)

Q_IO      == <<"q",".","i","o">>
HOST_PORT == <<"h",":","5","0">>
A_B       == <<"a","_","b">>
SHA_F     == <<"s","h","a","2","5","6",":">> \o Rep("f", HEX_MIN)

Registries == {Q_IO, DOCKER_IO, HOST_PORT, A_B}
PathComps  == {<<"a">>, <<"b">>}
ShortNames == {<<"x">>, <<"h","-","w">>}
Tags       == {<<>>, <<"t">>, <<"v","1",".","2">>}       \* <<>>: no tag
Digests    == {<<>>, SHA_F}                              \* <<>>: no digest

Paths == UNION {[1..n -> PathComps] : n \in 0..MaxPath}

\* REFERENCE = NAME (:TAG)? (@DIGEST)?
FormatRef(segs, tag, dig) ==
    Join(segs, "/")
      \o (IF tag = <<>> THEN <<>> ELSE <<":">> \o tag)
      \o (IF dig = <<>> THEN <<>> ELSE <<"@">> \o dig)

SegLists ==
    {<<r>> \o p \o <<n>> : r \in Registries, p \in Paths, n \in ShortNames}
      \cup {<<n>> : n \in ShortNames}

ValidRefs ==
    {[str |-> FormatRef(sg, t, d), built |-> TRUE, segs |-> sg, tag |-> t, dig |-> d] :
        sg \in SegLists, t \in Tags, d \in Digests}

NotARef(s) == [str |-> s, built |-> FALSE, segs |-> <<>>, tag |-> <<>>, dig |-> <<>>]

InvalidRefs ==
    {NotARef(<<>>),
     NotARef(<<"n","o","t"," ","a","n"," ","i","m","a","g","e">>),
     NotARef(<<"X">>),
     NotARef(<<"x",":">>),
     NotARef(Q_IO \o <<"/","/","x">>),
     NotARef(<<"x","@","s","h","a",":","f","f">>),
     NotARef(<<"x","@">> \o SHA_F \o <<"@">> \o SHA_F)}

RefInputs == ValidRefs \cup InvalidRefs

-----------------------------------------------------------------------------
(* Reference spec: one reference, and the methods called on it *)

NoResult == [ok |-> FALSE, val |-> <<>>, err |-> "not called"]

RefInit ==
    /\ ref \in RefInputs
    /\ call = "none"
    /\ result = NoResult

CallGetIdentifier ==
    /\ call' = "get_identifier"
    /\ result' = get_identifier(ref.str)
    /\ UNCHANGED ref

CallGetName ==
    /\ call' = "get_name"
    /\ result' = get_name(ref.str)
    /\ UNCHANGED ref

CallGetRegistry ==
    /\ call' = "get_registry"
    /\ result' = get_registry(ref.str)
    /\ UNCHANGED ref

CallGetPath ==
    /\ call' = "get_path"
    /\ result' = get_path(ref.str)
    /\ UNCHANGED ref

CallGetShortName ==
    /\ call' = "get_short_name"
    /\ result' = get_short_name(ref.str)
    /\ UNCHANGED ref

CallGetRegistryBaseUrl ==
    /\ call' = "get_registry_base_url"
    /\ result' = get_registry_base_url(ref.str)
    /\ UNCHANGED ref

\* str(bool)
Bool(b) == IF b THEN <<"T","r","u","e">> ELSE <<"F","a","l","s","e">>

CallIsDigestRef ==
    /\ call' = "is_digest_ref"
    /\ result' = IF ~validate_static(ref.str) THEN Raise("InvalidReference")
                 ELSE Ok(Bool(is_digest_ref(ref.str)))
    /\ UNCHANGED ref

CallIsTagRef ==
    /\ call' = "is_tag_ref"
    /\ result' = IF ~validate_static(ref.str) THEN Raise("InvalidReference")
                 ELSE Ok(Bool(is_tag_ref(ref.str)))
    /\ UNCHANGED ref

-----------------------------------------------------------------------------
(* Credential selection: ContainerImageRegistryClient.get_registry_auth    *)
(* (image/client.py; the copy in image/containerimage.py is the same).     *)
(* An auth map is the "auths" object in key order: a sequence of entries   *)
(* with distinct keys, each with or without an "auth" field.               *)

AuthResult(a, f) == [ok |-> TRUE,  auth |-> a,  found |-> f,     err |-> "none"]
AuthRaise(e)     == [ok |-> FALSE, auth |-> "", found |-> FALSE, err |-> e]

\* The loop over auths.keys(): the last match after the keys from position i
RECURSIVE LastMatch(_, _, _, _)
LastMatch(s, a, i, m) ==
    IF i > Len(a) THEN m
    ELSE LET reg_str == a[i].key
         IN  IF ~StartsWith(s, reg_str) THEN LastMatch(s, a, i + 1, m)
             ELSE IF Len(reg_str) > Len(m.last_match)
                  THEN LastMatch(s, a, i + 1,
                                 [last_match |-> reg_str, match_found |-> TRUE])
                  ELSE LastMatch(s, a, i + 1, m)

\* auths.get(last_match, {})
EntryOf(a, k) == a[CHOOSE i \in 1..Len(a) : a[i].key = k]

get_registry_auth(s, a) ==
    IF ~validate_static(s) THEN AuthRaise("InvalidReference")
    ELSE LET m == LastMatch(s, a, 1, [last_match |-> <<>>, match_found |-> FALSE])
         IN  IF ~m.match_found THEN AuthResult("", FALSE)
             ELSE IF ~EntryOf(a, m.last_match).has_auth
                  THEN AuthRaise("NoAuthKey")
                  ELSE AuthResult(EntryOf(a, m.last_match).auth, TRUE)

\* The auth maps and references the credential spec draws from
Q_IO_A   == Q_IO \o <<"/","a">>
X_IO     == <<"x",".","i","o">>
AuthKeys == {<<>>, Q_IO, Q_IO_A, HOST_PORT, X_IO}
AuthEntries ==
    {[key |-> k, has_auth |-> TRUE, auth |-> v] : k \in AuthKeys, v \in {"A1", "A2"}}
      \cup {[key |-> k, has_auth |-> FALSE, auth |-> ""] : k \in AuthKeys}

AuthMaps ==
    {a \in UNION {[1..n -> AuthEntries] : n \in 0..MaxAuthKeys} :
        \A i, j \in 1..Len(a) : a[i].key = a[j].key => i = j}

AuthRefs ==
    {Q_IO \o <<"/","a","/","x",":","t">>,
     Q_IO \o <<"/","x">>,
     HOST_PORT \o <<"/","x",":","t">>,
     DOCKER_IO \o <<"/","a","/","x","@">> \o SHA_F}

AuthNotCalled == [ok |-> FALSE, auth |-> "", found |-> FALSE, err |-> "not called"]

AuthInit ==
    /\ auths \in AuthMaps
    /\ authRef \in AuthRefs
    /\ authOut = AuthNotCalled

CallGetRegistryAuth ==
    /\ authOut' = get_registry_auth(authRef, auths)
    /\ UNCHANGED <<auths, authRef>>

-----------------------------------------------------------------------------
(* The bearer dance: ContainerImageRegistryClient.get_auth_token           *)

QUOTE == "\""

\* str.replace("\"", "")
Unquote(s) == SelectSeq(s, LAMBDA c : c # QUOTE)

\* query_params[k] = v on an insertion-ordered dict
DictSet(d, k, v) ==
    IF \E i \in 1..Len(d) : d[i].k = k
    THEN [i \in 1..Len(d) |-> IF d[i].k = k THEN [k |-> k, v |-> v] ELSE d[i]]
    ELSE Append(d, [k |-> k, v |-> v])

DictHas(d, k) == \E i \in 1..Len(d) : d[i].k = k
DictGet(d, k) == d[CHOOSE i \in 1..Len(d) : d[i].k = k].v
DictDel(d, k) == SelectSeq(d, LAMBDA e : e.k # k)

\* The loop over the comma-separated parameters of the challenge; a
\* parameter without "=" makes param_components[1] an IndexError
RECURSIVE ParseParams(_, _, _)
ParseParams(ps, i, d) ==
    IF i > Len(ps) THEN [ok |-> TRUE, dict |-> d]
    ELSE LET param_components == Split(ps[i], "=")
         IN  IF Len(param_components) < 2 THEN [ok |-> FALSE, dict |-> <<>>]
             ELSE ParseParams(ps, i + 1,
                     DictSet(d, param_components[1], Unquote(param_components[2])))

\* urllib.parse.quote_plus on one character
QuoteCh(c) ==
    IF c \in Lower \cup Upper \cup Digit \cup {"_", ".", "-", "~"} THEN <<c>>
    ELSE IF c = " " THEN <<"+">>
    ELSE IF c = ":" THEN <<"%","3","A">>
    ELSE IF c = "/" THEN <<"%","2","F">>
    ELSE IF c = "," THEN <<"%","2","C">>
    ELSE IF c = "=" THEN <<"%","3","D">>
    ELSE IF c = "@" THEN <<"%","4","0">>
    ELSE IF c = "+" THEN <<"%","2","B">>
    ELSE IF c = QUOTE THEN <<"%","2","2">>
    ELSE <<"%","?","?">>

RECURSIVE QuotePlus(_)
QuotePlus(s) == IF s = <<>> THEN <<>> ELSE QuoteCh(Head(s)) \o QuotePlus(Tail(s))

\* urllib.parse.urlencode(query_params)
urlencode(d) ==
    Join([i \in 1..Len(d) |-> QuotePlus(d[i].k) \o <<"=">> \o QuotePlus(d[i].v)], "&")

REALM == <<"r","e","a","l","m">>

\* The parsing half of get_auth_token: scheme and token URL, or the error
\* raised before any request to the token service
parse_challenge(www_auth_header) ==
    LET auth_components == Split(www_auth_header, " ")
    IN  IF Len(auth_components) < 2
        THEN [ok |-> FALSE, scheme |-> <<>>, url |-> <<>>, err |-> "IndexError"]
        ELSE LET parsed == ParseParams(Split(auth_components[2], ","), 1, <<>>)
             IN  IF ~parsed.ok
                 THEN [ok |-> FALSE, scheme |-> <<>>, url |-> <<>>, err |-> "IndexError"]
                 ELSE IF ~DictHas(parsed.dict, REALM)
                 THEN [ok |-> FALSE, scheme |-> <<>>, url |-> <<>>, err |-> "KeyError"]
                 ELSE [ok |-> TRUE,
                       scheme |-> auth_components[1],
                       url |-> DictGet(parsed.dict, REALM) \o <<"?">>
                                 \o urlencode(DictDel(parsed.dict, REALM)),
                       err |-> "none"]

-----------------------------------------------------------------------------
(* HTTP as the client sees it *)

\* The response statuses the registry and the token service answer with
Statuses == {200, 301, 401, 404, 500}

\* requests.Response.raise_for_status raises for 400 <= status < 600
raise_for_status(st) == st >= 400 /\ st < 600

DOCKER_V2S2_LIST_MEDIA_TYPE   == "application/vnd.docker.distribution.manifest.list.v2+json"
DOCKER_V2S2_MEDIA_TYPE        == "application/vnd.docker.distribution.manifest.v2+json"
OCI_INDEX_MEDIA_TYPE          == "application/vnd.oci.image.index.v1+json"
OCI_MANIFEST_MEDIA_TYPE       == "application/vnd.oci.image.manifest.v1+json"
DOCKER_V2S1_MEDIA_TYPE        == "application/vnd.docker.distribution.manifest.v1+json"
DOCKER_V2S1_SIGNED_MEDIA_TYPE == "application/vnd.docker.distribution.manifest.v1+prettyjws"

DEFAULT_REQUEST_MANIFEST_MEDIA_TYPES ==
    <<DOCKER_V2S2_LIST_MEDIA_TYPE, DOCKER_V2S2_MEDIA_TYPE, OCI_INDEX_MEDIA_TYPE,
      OCI_MANIFEST_MEDIA_TYPE, DOCKER_V2S1_MEDIA_TYPE, DOCKER_V2S1_SIGNED_MEDIA_TYPE>>

BASIC  == <<"B","a","s","i","c">>
BEARER == <<"B","e","a","r","e","r">>

\* A request: where it goes, and the Authorization and Accept headers
\* (scheme <<>>: no Authorization header; accept <<>>: no Accept header)
Request(to, method, url, scheme, cred, accept) ==
    [to |-> to, method |-> method, url |-> url,
     scheme |-> scheme, cred |-> cred, accept |-> accept]

\* The challenge headers a registry answers with; NoHeader: the response
\* has no Www-Authenticate header
NoHeader == <<>>
KV(k, v) == k \o <<"=", QUOTE>> \o v \o <<QUOTE>>
SERVICE == <<"s","e","r","v","i","c","e">>
SCOPE   == <<"s","c","o","p","e">>
CH_REALM_SERVICE ==
    BEARER \o <<" ">> \o KV(REALM, <<"r">>) \o <<",">> \o KV(SERVICE, <<"s">>)
CH_SCOPE_COMMA ==
    BEARER \o <<" ">> \o KV(REALM, <<"r">>) \o <<",">>
           \o KV(SCOPE, <<"a",":","p",",","q">>)
CH_NO_PARAMS == BASIC
CH_NO_REALM  == BEARER \o <<" ">> \o KV(SERVICE, <<"s">>)

Challenges == {CH_REALM_SERVICE, CH_SCOPE_COMMA, CH_NO_PARAMS, CH_NO_REALM}

-----------------------------------------------------------------------------
(* The registry operations: query_manifest, query_blob, query_tags and     *)
(* delete of image/client.py, and query_manifest, query_blob and delete of *)
(* the client class that image/containerimage.py defines, the latter also  *)
(* under ContainerImage.exists (kind "exists").  An operation              *)
(* is suspended exactly at its HTTP calls; each action below runs from one *)
(* response to the next request or to the end of the operation.            *)

OpKinds ==
    {[impl |-> "client", kind |-> k] : k \in {"manifest", "blob", "tags", "delete"}}
      \cup {[impl |-> "containerimage", kind |-> k] :
                k \in {"manifest", "blob", "delete", "exists"}}

MANIFESTS == <<"/","m","a","n","i","f","e","s","t","s","/">>
BLOBS     == <<"/","b","l","o","b","s","/">>
TAGS_LIST == <<"/","t","a","g","s","/","l","i","s","t">>

\* The Accept header of the first request
AcceptOf(im, k) ==
    IF im = "client" /\ k = "manifest" THEN DEFAULT_REQUEST_MANIFEST_MEDIA_TYPES
    ELSE IF im = "client" /\ k = "tags" THEN <<"application/json">>
    ELSE <<>>

\* Everything an operation does before its first HTTP call: the API URL,
\* the credentials and the headers, or the exception that ends it
Prepare(k, im, r, a) ==
    LET base    == get_registry_base_url(r)
        ident   == IF k = "blob" THEN Ok(SHA_F) ELSE get_identifier(r)
        regauth == get_registry_auth(r, a)
        url     == base.val \o (IF k = "blob" THEN BLOBS \o ident.val
                                ELSE IF k = "tags" THEN TAGS_LIST
                                ELSE MANIFESTS \o ident.val)
        none    == Request("none", "none", <<>>, <<>>, "", <<>>)
    IN  IF ~base.ok
        THEN [ok |-> FALSE, err |-> base.err, found |-> FALSE, reg_auth |-> "", request |-> none]
        ELSE IF ~ident.ok
        THEN [ok |-> FALSE, err |-> ident.err, found |-> FALSE, reg_auth |-> "", request |-> none]
        ELSE IF ~regauth.ok
        THEN [ok |-> FALSE, err |-> regauth.err, found |-> FALSE, reg_auth |-> "", request |-> none]
        ELSE [ok |-> TRUE, err |-> "none",
              found |-> regauth.found, reg_auth |-> regauth.auth,
              request |-> Request("registry",
                                  IF k = "delete" THEN "DELETE" ELSE "GET",
                                  url,
                                  IF regauth.found THEN BASIC ELSE <<>>,
                                  regauth.auth,
                                  AcceptOf(im, k))]

\* The condition under which the bearer dance is entered
NeedsTokenDance_anyError(im, found, st, ch) ==
    /\ st >= 400
    /\ ch # NoHeader
    /\ (im = "containerimage" => found)

NeedsTokenDance(im, found, st, ch) ==
    /\ st = 401
    /\ ch # NoHeader
    /\ (im = "containerimage" => found)

\* The Authorization header of the request to the token service
TokenRequest(im, url, reg_auth) ==
    IF im = "client" /\ Len(reg_auth) = 0
    THEN Request("token", "GET", url, <<>>, "", <<>>)
    ELSE Request("token", "GET", url, BASIC, reg_auth, <<>>)

NoOp == [kind |-> "none", impl |-> "none", ref |-> <<>>, found |-> FALSE,
         reg_auth |-> "", scheme |-> <<>>]
NoResponse == [status |-> 0, challenge |-> NoHeader]
NoTokenResponse == [status |-> 0, body |-> "none"]
TOKEN == "TOKEN"

ClientRefs ==
    {Q_IO \o <<"/","a","/","x",":","t">>,
     HOST_PORT \o <<"/","x">>,
     DOCKER_IO \o <<"/","x","@">> \o SHA_F}

ClientAuthMaps ==
    {<<>>,
     <<[key |-> Q_IO, has_auth |-> TRUE, auth |-> "A1"]>>,
     <<[key |-> Q_IO, has_auth |-> TRUE, auth |-> "A1"],
       [key |-> Q_IO_A, has_auth |-> FALSE, auth |-> ""]>>,
     <<[key |-> DOCKER_IO, has_auth |-> TRUE, auth |-> ""]>>,
     <<[key |-> <<>>, has_auth |-> TRUE, auth |-> "A2"]>>,
     <<[key |-> <<>>, has_auth |-> FALSE, auth |-> ""]>>}

ClientIdle ==
    /\ pc = "idle"
    /\ op = NoOp
    /\ nSent = 0
    /\ nToken = 0
    /\ reqs = <<>>
    /\ first = NoResponse
    /\ tok = NoTokenResponse
    /\ final = 0
    /\ outcome = "none"
    /\ existsOut = "none"

\* ContainerImage.exists around ContainerImageRegistryClient.get_manifest:
\* what the caller gets when the manifest operation ended in out, st being
\* the status of the response an HTTPError carries.  The body of a manifest
\* response that raised no error is taken to be JSON.
exists(k, out, st) ==
    IF k # "exists" THEN "none"
    ELSE IF out = "response" THEN "True"
    ELSE IF out = "HTTPError" /\ st = 404 THEN "False"
    ELSE "raise"

\* An operation is called: it ends in an exception before any request, or
\* sends its first request
Start(k, im, r, a) ==
    /\ pc = "idle"
    /\ LET prep == Prepare(k, im, r, a)
       IN  /\ op' = [kind |-> k, impl |-> im, ref |-> r, found |-> prep.found,
                     reg_auth |-> prep.reg_auth, scheme |-> <<>>]
           /\ IF prep.ok
              THEN /\ pc' = "wait1"
                   /\ reqs' = <<prep.request>>
                   /\ nSent' = 1
                   /\ outcome' = "none"
                   /\ existsOut' = "none"
              ELSE /\ pc' = "done"
                   /\ reqs' = <<>>
                   /\ nSent' = 0
                   /\ outcome' = prep.err
                   /\ existsOut' = exists(k, prep.err, 0)
    /\ auths' = a
    /\ nToken' = 0
    /\ first' = NoResponse
    /\ tok' = NoTokenResponse
    /\ final' = 0

\* The first response arrives
Respond1(st, ch) ==
    /\ pc = "wait1"
    /\ first' = [status |-> st, challenge |-> ch]
    /\ IF NeedsTokenDance(op.impl, op.found, st, ch)
       THEN LET c == parse_challenge(ch)
            IN  IF c.ok
                THEN /\ pc' = "waitToken"
                     /\ reqs' = Append(reqs, TokenRequest(op.impl, c.url, op.reg_auth))
                     /\ nToken' = nToken + 1
                     /\ op' = [op EXCEPT !.scheme = c.scheme]
                     /\ UNCHANGED <<final, outcome, existsOut>>
                ELSE /\ pc' = "done"
                     /\ outcome' = c.err
                     /\ existsOut' = exists(op.kind, c.err, 0)
                     /\ UNCHANGED <<reqs, nToken, op, final>>
       ELSE /\ pc' = "done"
            /\ final' = st
            /\ outcome' = IF raise_for_status(st) THEN "HTTPError" ELSE "response"
            /\ existsOut' = exists(op.kind, outcome', st)
            /\ UNCHANGED <<reqs, nToken, op>>
    /\ UNCHANGED <<auths, nSent, tok>>

\* The token service answers: the original request is resent with the
\* token, or the operation ends in the exception of the token request
TokenRespond(st, body) ==
    /\ pc = "waitToken"
    /\ tok' = [status |-> st, body |-> body]
    /\ IF raise_for_status(st)
       THEN /\ pc' = "done"
            /\ outcome' = "HTTPError"
            /\ existsOut' = exists(op.kind, "HTTPError", st)
            /\ UNCHANGED <<reqs, nSent>>
       ELSE IF body # "token"
       THEN /\ pc' = "done"
            /\ outcome' = "KeyError"
            /\ existsOut' = exists(op.kind, "KeyError", 0)
            /\ UNCHANGED <<reqs, nSent>>
       ELSE /\ pc' = "wait2"
            /\ reqs' = Append(reqs, [reqs[1] EXCEPT !.scheme = op.scheme, !.cred = TOKEN])
            /\ nSent' = nSent + 1
            /\ UNCHANGED <<outcome, existsOut>>
    /\ UNCHANGED <<auths, op, nToken, first, final>>

\* A client that takes a 401 to the resent request as a new challenge
Respond2_again(st) ==
    /\ pc = "wait2"
    /\ final' = st
    /\ IF st = 401 /\ nSent < 4
       THEN /\ pc' = "wait2"
            /\ reqs' = Append(reqs, reqs[Len(reqs)])
            /\ nSent' = nSent + 1
            /\ UNCHANGED <<outcome, existsOut>>
       ELSE /\ pc' = "done"
            /\ outcome' = IF raise_for_status(st) THEN "HTTPError" ELSE "response"
            /\ existsOut' = exists(op.kind, outcome', st)
            /\ UNCHANGED <<reqs, nSent>>
    /\ UNCHANGED <<auths, op, nToken, first, tok>>

\* The response to the resent request arrives
Respond2(st) ==
    /\ pc = "wait2"
    /\ final' = st
    /\ pc' = "done"
    /\ outcome' = IF raise_for_status(st) THEN "HTTPError" ELSE "response"
    /\ existsOut' = exists(op.kind, outcome', st)
    /\ UNCHANGED <<auths, op, nSent, nToken, reqs, first, tok>>

\* The operation has returned or raised; the client is stateless
Return ==
    /\ pc = "done"
    /\ pc' = "idle"
    /\ op' = NoOp
    /\ nSent' = 0
    /\ nToken' = 0
    /\ reqs' = <<>>
    /\ first' = NoResponse
    /\ tok' = NoTokenResponse
    /\ final' = 0
    /\ outcome' = "none"
    /\ existsOut' = "none"
    /\ auths' = <<>>

-----------------------------------------------------------------------------
(* Sizes: ContainerImageManifest.get_size (image/manifest.py),             *)
(* ContainerImageManifestList.get_size (image/manifestlist.py) and         *)
(* ContainerImageList.get_size (image/containerimage.py).                  *)
(* A descriptor is its digest and its size; a manifest is its config       *)
(* descriptor and its layer descriptors; a manifest list entry is its size *)
(* and the child manifest its digest addresses.                            *)

IntOk(n)    == [ok |-> TRUE,  val |-> n, err |-> "none"]
IntRaise(e) == [ok |-> FALSE, val |-> 0, err |-> e]
SizeNotCalled == [ok |-> FALSE, val |-> 0, err |-> "not called"]

\* layer_dict[digest] = size, over the descriptors in order: the dict as a
\* function from the digests seen to the size stored last
RECURSIVE PutAll(_, _)
PutAll(d, descs) ==
    IF descs = <<>> THEN d
    ELSE PutAll([k \in DOMAIN d \cup {Head(descs).digest} |->
                    IF k = Head(descs).digest THEN Head(descs).size ELSE d[k]],
                Tail(descs))

EmptyDict == [k \in {} |-> 0]

\* the sum of the values of a dict
RECURSIVE SumDict(_)
SumDict(d) ==
    IF DOMAIN d = {} THEN 0
    ELSE LET k == CHOOSE x \in DOMAIN d : TRUE
         IN  d[k] + SumDict([x \in DOMAIN d \ {k} |-> d[x]])

\* ContainerImageManifest.get_layer_descriptors
get_layer_descriptors(m) ==
    IF Len(m.layers) = 0
    THEN [ok |-> FALSE, val |-> <<>>, err |-> "ValueError"]
    ELSE [ok |-> TRUE, val |-> m.layers, err |-> "none"]

\* ContainerImageManifest.get_size
manifest_get_size(m) ==
    LET config_size == m.config.size
        layers      == get_layer_descriptors(m)
    IN  IF ~layers.ok THEN IntRaise(layers.err)
        ELSE IntOk(config_size + SumDict(PutAll(EmptyDict, layers.val)))

\* The documents the size specs draw from
LayerDigests  == {"l1", "l2"}
ConfigDigests == {"c1", "c2"}
SizeVals      == {1, 2}
LayerDescs    == [digest : LayerDigests, size : SizeVals]
ConfigDescs   == [digest : ConfigDigests, size : SizeVals]

Manifests ==
    {[kind |-> "manifest", config |-> c, layers |-> l] :
        c \in ConfigDescs,
        l \in UNION {[1..n -> LayerDescs] : n \in 0..MaxLayers}}

L(d, n) == [digest |-> d, size |-> n]
M(c, l) == [kind |-> "manifest", config |-> c, layers |-> l]

\* The child manifests of the manifest lists: one layer, a layer of its
\* own, a layer listed twice and shared with the first, no layers at all,
\* and one whose descriptors declare other sizes for the digests of the
\* first
ChildManifests ==
    {M(L("c1", 1), <<L("l1", 2)>>),
     M(L("c2", 1), <<L("l2", 2)>>),
     M(L("c1", 1), <<L("l1", 2), L("l1", 2)>>),
     M(L("c3", 2), <<>>),
     M(L("c1", 2), <<L("l1", 1), L("l1", 2)>>)}

Entries == [size : SizeVals, child : ChildManifests]

FatDocsUpTo(n) ==
    {[kind |-> "list", entries |-> e] : e \in UNION {[1..k -> Entries] : k \in 0..n}}

FatDocs == FatDocsUpTo(MaxEntries)

\* get_entry_sizes
RECURSIVE SumSizes(_)
SumSizes(es) == IF es = <<>> THEN 0 ELSE Head(es).size + SumSizes(Tail(es))

get_entry_sizes(f) == SumSizes(f.entries)

\* ContainerImageManifestList.get_layer_descriptors and
\* get_config_descriptors: the descriptors of all children, in entry order
RECURSIVE fat_get_layer_descriptors(_)
fat_get_layer_descriptors(es) ==
    IF es = <<>> THEN [ok |-> TRUE, val |-> <<>>, err |-> "none"]
    ELSE LET h == get_layer_descriptors(Head(es).child)
             t == fat_get_layer_descriptors(Tail(es))
         IN  IF ~h.ok THEN h
             ELSE IF ~t.ok THEN t
             ELSE [ok |-> TRUE, val |-> h.val \o t.val, err |-> "none"]

fat_get_config_descriptors(es) == [i \in 1..Len(es) |-> es[i].child.config]

\* ContainerImageManifestList.get_size over entries whose child manifests
\* were all fetched: the two dicts are filled in entry order
fat_get_size(es) ==
    LET manifest_layers == fat_get_layer_descriptors(es)
        configs == PutAll(EmptyDict, fat_get_config_descriptors(es))
    IN  IF ~manifest_layers.ok THEN IntRaise(manifest_layers.err)
        ELSE IntOk(SumSizes(es) + SumDict(configs)
                     + SumDict(PutAll(EmptyDict, manifest_layers.val)))

\* The loop of ContainerImageList.get_size over the images from position i
RECURSIVE ListSizeLoop(_, _, _)
ListSizeLoop(imgs, i, acc) ==
    IF i > Len(imgs)
    THEN IntOk(SumDict(acc.layers) + SumDict(acc.configs) + acc.entry_sizes)
    ELSE LET manifest == imgs[i]
             is_list  == manifest.kind = "list"
             image_layers ==
                 IF is_list THEN fat_get_layer_descriptors(manifest.entries)
                 ELSE get_layer_descriptors(manifest)
             image_configs ==
                 IF is_list THEN fat_get_config_descriptors(manifest.entries)
                 ELSE <<manifest.config>>
         IN  IF ~image_layers.ok THEN IntRaise(image_layers.err)
             ELSE ListSizeLoop(imgs, i + 1,
                    [configs |-> PutAll(acc.configs, image_configs),
                     layers |-> PutAll(acc.layers, image_layers.val),
                     entry_sizes |-> acc.entry_sizes +
                        (IF is_list THEN get_entry_sizes(manifest) ELSE 0),
                     i |-> i])

NoAcc == [configs |-> EmptyDict, layers |-> EmptyDict, entry_sizes |-> 0, i |-> 0]
NoDoc == [kind |-> "none"]

SizeIdle ==
    /\ doc = NoDoc
    /\ images = <<>>
    /\ szPc = "idle"
    /\ szAcc = NoAcc
    /\ fetched = <<>>
    /\ szOut = SizeNotCalled

-----------------------------------------------------------------------------
(* Manifest spec: one single-arch manifest and its get_size *)

ManifestInit ==
    /\ doc \in Manifests
    /\ images = <<>>
    /\ szPc = "idle"
    /\ szAcc = NoAcc
    /\ fetched = <<>>
    /\ szOut = SizeNotCalled

CallManifestGetSize ==
    /\ szOut' = manifest_get_size(doc)
    /\ szPc' = "done"
    /\ UNCHANGED <<doc, images, szAcc, fetched>>

\* A copy of the k-th layer descriptor is appended to the manifest
AppendLayerCopy(k) ==
    /\ k \in 1..Len(doc.layers)
    /\ Len(doc.layers) <= MaxLayers
    /\ doc' = [doc EXCEPT !.layers = Append(@, doc.layers[k])]
    /\ szOut' = SizeNotCalled
    /\ szPc' = "idle"
    /\ UNCHANGED <<images, szAcc, fetched>>

-----------------------------------------------------------------------------
(* Fat spec: ContainerImage.get_size on one image, whose manifest request  *)
(* returns doc.  For a manifest list the children are requested one by one *)

FatInit ==
    /\ doc \in FatDocs \cup ChildManifests
    /\ images = <<>>
    /\ szPc = "idle"
    /\ szAcc = NoAcc
    /\ fetched = <<>>
    /\ szOut = SizeNotCalled

\* get_size is called and runs up to the request of the first child
StartImageGetSize ==
    /\ szPc = "idle"
    /\ IF doc.kind = "manifest"
       THEN /\ szOut' = manifest_get_size(doc)
            /\ szPc' = "done"
            /\ UNCHANGED <<szAcc, fetched>>
       ELSE IF Len(doc.entries) = 0
       THEN /\ szOut' = IntOk(0)
            /\ szPc' = "done"
            /\ UNCHANGED <<szAcc, fetched>>
       ELSE /\ szAcc' = [NoAcc EXCEPT !.entry_sizes = doc.entries[1].size, !.i = 1]
            /\ fetched' = <<1>>
            /\ szPc' = "child"
            /\ UNCHANGED szOut
    /\ UNCHANGED <<doc, images>>

\* How the HTTP exchange of one child's get_manifest can go: the number of
\* manifest requests it takes (two when the first is answered 401 with a
\* challenge and the token is granted) and whether it ends in a manifest
ChildOutcomes == [n : {1, 2}, success : BOOLEAN]

ChildRespond_skipFailed(o) ==
    /\ szPc = "child"
    /\ LET entry  == doc.entries[szAcc.i]
           layers == get_layer_descriptors(entry.child)
           got    == IF o.n = 2 THEN Append(fetched, szAcc.i) ELSE fetched
           acc    == IF o.success /\ layers.ok
                     THEN [szAcc EXCEPT
                              !.configs = PutAll(@, <<entry.child.config>>),
                              !.layers = PutAll(@, layers.val)]
                     ELSE szAcc
       IN  IF szAcc.i = Len(doc.entries)
           THEN /\ szOut' = IntOk(acc.entry_sizes + SumDict(acc.configs)
                                    + SumDict(acc.layers))
                /\ szPc' = "done"
                /\ szAcc' = acc
                /\ fetched' = got
           ELSE /\ szAcc' = [acc EXCEPT
                                !.entry_sizes = @ + doc.entries[szAcc.i + 1].size,
                                !.i = @ + 1]
                /\ fetched' = Append(got, szAcc.i + 1)
                /\ UNCHANGED <<szOut, szPc>>
    /\ UNCHANGED <<doc, images>>

\* The get_manifest of child szAcc.i ends: in an error, or with the child
\* manifest, and the loop runs up to the next request or its end
ChildRespond(o) ==
    /\ szPc = "child"
    /\ LET entry  == doc.entries[szAcc.i]
           layers == get_layer_descriptors(entry.child)
           got    == IF o.n = 2 THEN Append(fetched, szAcc.i) ELSE fetched
           acc    == [szAcc EXCEPT
                         !.configs = PutAll(@, <<entry.child.config>>),
                         !.layers = PutAll(@, layers.val)]
       IN  IF ~o.success
           THEN /\ szOut' = IntRaise("HTTPError")
                /\ szPc' = "done"
                /\ fetched' = got
                /\ UNCHANGED szAcc
           ELSE IF ~layers.ok
           THEN /\ szOut' = IntRaise(layers.err)
                /\ szPc' = "done"
                /\ fetched' = got
                /\ UNCHANGED szAcc
           ELSE IF szAcc.i = Len(doc.entries)
           THEN /\ szOut' = IntOk(acc.entry_sizes + SumDict(acc.configs)
                                    + SumDict(acc.layers))
                /\ szPc' = "done"
                /\ szAcc' = acc
                /\ fetched' = got
           ELSE /\ szAcc' = [acc EXCEPT
                                !.entry_sizes = @ + doc.entries[szAcc.i + 1].size,
                                !.i = @ + 1]
                /\ fetched' = Append(got, szAcc.i + 1)
                /\ UNCHANGED <<szOut, szPc>>
    /\ UNCHANGED <<doc, images>>

-----------------------------------------------------------------------------
(* List spec: a ContainerImageList, its append and its get_size *)

ListDocs == ChildManifests \cup FatDocsUpTo(MaxListEntries)

ListInit ==
    /\ doc = NoDoc
    /\ images = <<>>
    /\ szPc = "idle"
    /\ szAcc = NoAcc
    /\ fetched = <<>>
    /\ szOut = SizeNotCalled

AppendImage(d) ==
    /\ Len(images) < MaxImages
    /\ images' = Append(images, d)
    /\ szOut' = SizeNotCalled
    /\ szPc' = "idle"
    /\ UNCHANGED <<doc, szAcc, fetched>>

CallListGetSize ==
    /\ szOut' = ListSizeLoop(images, 1, NoAcc)
    /\ szPc' = "done"
    /\ UNCHANGED <<doc, images, szAcc, fetched>>

-----------------------------------------------------------------------------
(* JSON documents and their validation: image/manifestschema.py,           *)
(* image/v2s2schema.py, image/ocischema.py, image/descriptor.py,           *)
(* image/v2s2.py, image/oci.py and image/manifestfactory.py.               *)
(* A JSON object is a record: has is the set of its keys, the other fields *)
(* are the values of the keys it has.  A value whose JSON type matters is  *)
(* a record of its type t and its value v.                                 *)

\* jsonschema's "required" and "additionalProperties": False
HasKeys(d, required, properties) ==
    required \subseteq d.has /\ d.has \subseteq properties

IsInteger(x) == x.t = "integer"

MANIFEST_DESCRIPTOR_SCHEMA(d) ==
    /\ HasKeys(d, {"mediaType", "size", "digest"},
                  {"mediaType", "digest", "size", "urls", "annotations"})
    /\ IsInteger(d.size)

IMAGE_INDEX_ENTRY_PLATFORM_SCHEMA(p) ==
    HasKeys(p, {"os", "architecture"},
               {"architecture", "os", "os.version", "os.features", "variant",
                "features"})

MANIFEST_LIST_V2_ENTRY_SCHEMA(e) ==
    /\ HasKeys(e, {"mediaType", "size", "digest", "platform"},
                  {"mediaType", "size", "digest", "platform"})
    /\ IsInteger(e.size)
    /\ IMAGE_INDEX_ENTRY_PLATFORM_SCHEMA(e.platform)

IMAGE_INDEX_ENTRY_OCI_SCHEMA(e) ==
    /\ HasKeys(e, {"mediaType", "digest", "size"},
                  {"mediaType", "digest", "size", "platform", "annotations"})
    /\ IsInteger(e.size)
    /\ "platform" \in e.has => IMAGE_INDEX_ENTRY_PLATFORM_SCHEMA(e.platform)

MANIFEST_V2_SCHEMA(d) ==
    /\ HasKeys(d, {"schemaVersion", "mediaType", "config", "layers"},
                  {"schemaVersion", "mediaType", "config", "layers"})
    /\ IsInteger(d.schemaVersion)
    /\ MANIFEST_DESCRIPTOR_SCHEMA(d.config)
    /\ \A i \in 1..Len(d.layers) : MANIFEST_DESCRIPTOR_SCHEMA(d.layers[i])

MANIFEST_LIST_V2_SCHEMA(d) ==
    /\ HasKeys(d, {"mediaType", "schemaVersion", "manifests"},
                  {"mediaType", "schemaVersion", "manifests"})
    /\ IsInteger(d.schemaVersion)
    /\ \A i \in 1..Len(d.manifests) : MANIFEST_LIST_V2_ENTRY_SCHEMA(d.manifests[i])

MANIFEST_OCI_SCHEMA(d) ==
    /\ HasKeys(d, {"schemaVersion", "config", "layers"},
                  {"schemaVersion", "mediaType", "config", "layers", "annotations"})
    /\ IsInteger(d.schemaVersion)
    /\ MANIFEST_DESCRIPTOR_SCHEMA(d.config)
    /\ \A i \in 1..Len(d.layers) : MANIFEST_DESCRIPTOR_SCHEMA(d.layers[i])

IMAGE_INDEX_OCI_SCHEMA(d) ==
    /\ HasKeys(d, {"schemaVersion", "manifests"},
                  {"schemaVersion", "mediaType", "manifests", "annotations"})
    /\ IsInteger(d.schemaVersion)
    /\ \A i \in 1..Len(d.manifests) : IMAGE_INDEX_ENTRY_OCI_SCHEMA(d.manifests[i])

\* ContainerImageDescriptor.validate_static
ContainerImageDescriptor_validate_static(d) ==
    MANIFEST_DESCRIPTOR_SCHEMA(d) /\ ANCHORED_DIGEST(d.digest)

\* ContainerImageManifestListEntryV2S2.validate_static
ContainerImageManifestListEntryV2S2_validate_static(e) ==
    MANIFEST_LIST_V2_ENTRY_SCHEMA(e) /\ ANCHORED_DIGEST(e.digest)

\* ContainerImageIndexEntryOCI.validate_static
ContainerImageIndexEntryOCI_validate_static(e) ==
    IMAGE_INDEX_ENTRY_OCI_SCHEMA(e) /\ ANCHORED_DIGEST(e.digest)

\* A v2s2 manifest validator without the check of the unsupported media types
ContainerImageManifestV2S2_validate_static_anyMediaType(d) ==
    /\ MANIFEST_V2_SCHEMA(d)
    /\ ContainerImageDescriptor_validate_static(d.config)
    /\ \A i \in 1..Len(d.layers) : ContainerImageDescriptor_validate_static(d.layers[i])

\* ContainerImageManifestV2S2.validate_static
ContainerImageManifestV2S2_validate_static(d) ==
    /\ MANIFEST_V2_SCHEMA(d)
    /\ ContainerImageDescriptor_validate_static(d.config)
    /\ \A i \in 1..Len(d.layers) : ContainerImageDescriptor_validate_static(d.layers[i])
    /\ d.mediaType # OCI_MANIFEST_MEDIA_TYPE

\* ContainerImageManifestListV2S2.validate_static
ContainerImageManifestListV2S2_validate_static(d) ==
    /\ MANIFEST_LIST_V2_SCHEMA(d)
    /\ \A i \in 1..Len(d.manifests) :
          ContainerImageManifestListEntryV2S2_validate_static(d.manifests[i])
    /\ d.mediaType # OCI_INDEX_MEDIA_TYPE

\* ContainerImageManifestOCI.validate_static
ContainerImageManifestOCI_validate_static(d) ==
    /\ MANIFEST_OCI_SCHEMA(d)
    /\ ContainerImageDescriptor_validate_static(d.config)
    /\ \A i \in 1..Len(d.layers) : ContainerImageDescriptor_validate_static(d.layers[i])
    /\ "mediaType" \in d.has => d.mediaType # DOCKER_V2S2_MEDIA_TYPE

\* ContainerImageIndexOCI.validate_static
ContainerImageIndexOCI_validate_static(d) ==
    /\ IMAGE_INDEX_OCI_SCHEMA(d)
    /\ \A i \in 1..Len(d.manifests) :
          ContainerImageIndexEntryOCI_validate_static(d.manifests[i])
    /\ "mediaType" \in d.has => d.mediaType # DOCKER_V2S2_LIST_MEDIA_TYPE

\* The four variants, in the order ContainerImageManifestFactory.create
\* probes them
V2S2_MANIFEST == "ContainerImageManifestV2S2"
V2S2_LIST     == "ContainerImageManifestListV2S2"
OCI_MANIFEST  == "ContainerImageManifestOCI"
OCI_INDEX     == "ContainerImageIndexOCI"
Variants      == <<V2S2_MANIFEST, V2S2_LIST, OCI_MANIFEST, OCI_INDEX>>

\* validate_static of variant V
validate_static_of(V, d) ==
    CASE V = V2S2_MANIFEST -> ContainerImageManifestV2S2_validate_static(d)
      [] V = V2S2_LIST     -> ContainerImageManifestListV2S2_validate_static(d)
      [] V = OCI_MANIFEST  -> ContainerImageManifestOCI_validate_static(d)
      [] V = OCI_INDEX     -> ContainerImageIndexOCI_validate_static(d)

Made(c, V, ok, e) == [call |-> c, variant |-> V, ok |-> ok, err |-> e]
NotMade == Made("none", "none", FALSE, "not called")

\* The constructor of variant V: it validates and raises ValidationError
Construct(V, d) ==
    IF validate_static_of(V, d) THEN Made("create", V, TRUE, "none")
    ELSE Made("create", "none", FALSE, "ValidationError")

\* A factory that probes the OCI variants before the v2s2 variants
create_ociFirst(im, d) ==
    IF ContainerImageManifestOCI_validate_static(d)
    THEN Construct(OCI_MANIFEST, d)
    ELSE IF ContainerImageIndexOCI_validate_static(d)
    THEN Construct(OCI_INDEX, d)
    ELSE IF ContainerImageManifestV2S2_validate_static(d)
    THEN Construct(V2S2_MANIFEST, d)
    ELSE IF ContainerImageManifestListV2S2_validate_static(d)
    THEN Construct(V2S2_LIST, d)
    ELSE Made("create", "none", FALSE,
              IF im = "manifestfactory" THEN "ContainerImageError"
              ELSE "ValidationError")

\* ContainerImageManifestFactory.create of module im
create(im, d) ==
    IF ContainerImageManifestV2S2_validate_static(d)
    THEN Construct(V2S2_MANIFEST, d)
    ELSE IF ContainerImageManifestListV2S2_validate_static(d)
    THEN Construct(V2S2_LIST, d)
    ELSE IF ContainerImageManifestOCI_validate_static(d)
    THEN Construct(OCI_MANIFEST, d)
    ELSE IF ContainerImageIndexOCI_validate_static(d)
    THEN Construct(OCI_INDEX, d)
    ELSE Made("create", "none", FALSE,
              IF im = "manifestfactory" THEN "ContainerImageError"
              ELSE "ValidationError")

\* The documents the document specs draw from
IntVal(n) == [t |-> "integer", v |-> n]
NotInt == [t |-> "string", v |-> 0]
Desc(has, size, digest) == [has |-> has, size |-> size, digest |-> digest]
Plat(has) == [has |-> has]
Entry(has, size, digest, platform) ==
    [has |-> has, size |-> size, digest |-> digest, platform |-> platform]

BAD_DIGEST == <<"s","h","a">>
DESC_KEYS  == {"mediaType", "size", "digest"}
ENTRY_KEYS == {"mediaType", "size", "digest", "platform"}
NoDesc     == Desc({}, NotInt, <<>>)
OS_ARCH    == Plat({"os", "architecture"})

DescDocs ==
    {Desc(DESC_KEYS, IntVal(1), SHA_F),
     Desc(DESC_KEYS, IntVal(1), BAD_DIGEST),
     Desc(DESC_KEYS \ {"size"}, NotInt, SHA_F)}

\* Entries with every subset of the v2s2 entry keys, an entry with a
\* malformed digest, an annotated entry, an entry whose platform lacks
\* the architecture
EntryDocs ==
    {Entry(h, IntVal(1), SHA_F, OS_ARCH) : h \in SUBSET ENTRY_KEYS}
      \cup {Entry(ENTRY_KEYS, IntVal(1), BAD_DIGEST, OS_ARCH),
            Entry(ENTRY_KEYS \cup {"annotations"}, IntVal(1), SHA_F, OS_ARCH),
            Entry(ENTRY_KEYS, IntVal(1), SHA_F, Plat({"os"}))}

TOP_KEYS == {"schemaVersion", "mediaType", "config", "layers", "manifests",
             "annotations"}

NoRaw ==
    [has |-> {}, schemaVersion |-> NotInt, mediaType |-> "", config |-> NoDesc,
     layers |-> <<>>, manifests |-> <<>>]

\* Every JSON object over the top-level keys; a key the object does not
\* have carries the value NoRaw gives it
RawDocs ==
    {d \in [has : SUBSET TOP_KEYS,
            schemaVersion : {IntVal(2), IntVal(1), NotInt},
            mediaType : {"", DOCKER_V2S2_MEDIA_TYPE, DOCKER_V2S2_LIST_MEDIA_TYPE,
                         OCI_MANIFEST_MEDIA_TYPE, OCI_INDEX_MEDIA_TYPE,
                         DOCKER_V2S1_MEDIA_TYPE},
            config : DescDocs \cup {NoDesc},
            layers : {<<>>} \cup {<<x>> : x \in DescDocs},
            manifests : {<<>>} \cup {<<e>> : e \in EntryDocs}] :
        /\ "schemaVersion" \in d.has <=> d.schemaVersion # NotInt
        /\ "mediaType" \in d.has <=> d.mediaType # ""
        /\ "config" \in d.has <=> d.config # NoDesc
        /\ "layers" \notin d.has => d.layers = <<>>
        /\ "manifests" \notin d.has => d.manifests = <<>>}

-----------------------------------------------------------------------------
(* Document spec: one JSON document, the factory and the validators *)

DocInit ==
    /\ raw \in RawDocs
    /\ made = NotMade

\* ContainerImageManifestFactory.create(raw)
CallCreate(im) ==
    /\ made' = create(im, raw)
    /\ UNCHANGED raw

\* V.validate_static(raw)
CallValidateStatic(V) ==
    /\ made' = Made("validate_static", V, validate_static_of(V, raw), "none")
    /\ UNCHANGED raw

\* validate() of the object the factory returned
CallValidate ==
    /\ made.call = "create"
    /\ made.ok
    /\ made' = Made("validate", made.variant,
                    validate_static_of(made.variant, raw), "none")
    /\ UNCHANGED raw

-----------------------------------------------------------------------------
(* Descriptor spec: ContainerImageDescriptor(descriptor) *)

DESC_PROPERTIES == {"mediaType", "digest", "size", "urls", "annotations"}

\* Descriptors over every subset of the schema's properties and one unknown
\* key, with a positive, a zero, a negative and a non-integer size and with
\* a well-formed and a malformed digest
DescriptorDocs ==
    {d \in [has : SUBSET (DESC_PROPERTIES \cup {"unknown"}),
            size : {IntVal(1), IntVal(0), IntVal(-1), NotInt},
            digest : {SHA_F, BAD_DIGEST, <<>>}] :
        /\ "size" \notin d.has => d.size = NotInt
        /\ "digest" \in d.has <=> d.digest # <<>>}

NotConstructed == [called |-> FALSE, ok |-> FALSE, err |-> "not called"]

DescriptorInit ==
    /\ desc \in DescriptorDocs
    /\ descOut = NotConstructed

\* ContainerImageDescriptor.__init__
CallDescriptorNew ==
    /\ descOut' = IF ContainerImageDescriptor_validate_static(desc)
                  THEN [called |-> TRUE, ok |-> TRUE, err |-> "none"]
                  ELSE [called |-> TRUE, ok |-> FALSE, err |-> "ValidationError"]
    /\ UNCHANGED desc

-----------------------------------------------------------------------------
(* Platform spec: ContainerImagePlatform, ContainerImage.get_platforms and *)
(* the selection of the host platform's entry.  A platform is the JSON     *)
(* object of an entry or the one built from a config: has is its keys.     *)

LINUX   == <<"l","i","n","u","x">>
WINDOWS == <<"w","i","n","d","o","w","s">>
AMD64   == <<"a","m","d","6","4">>
ARM     == <<"a","r","m">>
V7      == <<"v","7">>

Platform(os, arch, variant) ==
    [has |-> {"os", "architecture"} \cup (IF variant = <<>> THEN {} ELSE {"variant"}),
     os |-> os, architecture |-> arch, variant |-> variant]

\* ContainerImagePlatform.__str__
platform_str(p) ==
    LET plt_str == p.os \o <<"/">> \o p.architecture
    IN  IF "variant" \in p.has THEN plt_str \o <<"/">> \o p.variant ELSE plt_str

\* ContainerImagePlatform.__eq__
platform_eq(p, q) == platform_str(p) = platform_str(q)

\* ContainerImagePlatform.get_host_platform: HOST_PLATFORM has os and
\* architecture only
get_host_platform(e) == Platform(e.HOST_OS, e.HOST_ARCH, <<>>)

\* ContainerImageConfig.get_platform
config_get_platform(cfg) == Platform(cfg.os, cfg.architecture, cfg.variant)

Platforms ==
    {Platform(LINUX, AMD64, <<>>), Platform(LINUX, ARM, <<>>),
     Platform(LINUX, ARM, V7), Platform(WINDOWS, AMD64, <<>>)}

NoPlatform == [has |-> {}, os |-> <<>>, architecture |-> <<>>, variant |-> <<>>]

\* The entries of a fat manifest, as far as their platform goes
PlatEntries ==
    {[has_platform |-> TRUE, platform |-> p] : p \in Platforms}
      \cup {[has_platform |-> FALSE, platform |-> NoPlatform]}

PlatEntryLists == UNION {[1..n -> PlatEntries] : n \in 0..MaxPlatEntries}

\* The manifests get_manifest returns: objects the factory made, so a v2s2
\* list has a platform on every entry and an OCI index need not
PlatManifests ==
    {[kind |-> k, entries |-> <<>>, config |-> c] :
        k \in {V2S2_MANIFEST, OCI_MANIFEST}, c \in Platforms}
      \cup {[kind |-> OCI_INDEX, entries |-> es, config |-> NoPlatform] :
              es \in PlatEntryLists}
      \cup {[kind |-> V2S2_LIST, entries |-> es, config |-> NoPlatform] :
              es \in {l \in PlatEntryLists : \A i \in 1..Len(l) : l[i].has_platform}}

HostEnvs == {[HOST_OS |-> o, HOST_ARCH |-> a] : o \in {LINUX, WINDOWS}, a \in {AMD64, ARM}}

is_manifest_list_static(m) == m.kind \in {V2S2_LIST, OCI_INDEX}

PlatResult(c, ok, err, ps, picked, gets) ==
    [call |-> c, ok |-> ok, err |-> err, platforms |-> ps, picked |-> picked,
     fetched |-> gets]
PlatNotCalled == PlatResult("none", FALSE, "not called", <<>>, 0, <<>>)

\* ContainerImage.get_platforms, the manifest and the config blob fetched
\* without error
get_platforms(m) ==
    IF ~is_manifest_list_static(m)
    THEN PlatResult("get_platforms", TRUE, "none", <<config_get_platform(m.config)>>,
                    0, <<"manifest", "config">>)
    ELSE IF \E i \in 1..Len(m.entries) : ~m.entries[i].has_platform
    THEN PlatResult("get_platforms", FALSE, "TypeError", <<>>, 0, <<"manifest">>)
    ELSE PlatResult("get_platforms", TRUE, "none",
                    [i \in 1..Len(m.entries) |-> m.entries[i].platform],
                    0, <<"manifest">>)

\* The selection of the host platform's entry: the first entry whose
\* platform equals the host platform
host_platform_manifest(m, e) ==
    LET matching == {i \in 1..Len(m.entries) :
                        /\ m.entries[i].has_platform
                        /\ platform_eq(m.entries[i].platform, get_host_platform(e))}
    IN  IF ~is_manifest_list_static(m)
        THEN PlatResult("host_platform_manifest", TRUE, "none", <<>>, 0, <<"manifest">>)
        ELSE IF matching = {}
        THEN PlatResult("host_platform_manifest", FALSE, "NoMatchingPlatform",
                        <<>>, 0, <<"manifest">>)
        ELSE PlatResult("host_platform_manifest", TRUE, "none", <<>>,
                        CHOOSE i \in matching : \A j \in matching : i <= j,
                        <<"manifest", "child">>)

PlatformInit ==
    /\ pman \in PlatManifests
    /\ env \in HostEnvs
    /\ platOut = PlatNotCalled

CallGetPlatforms ==
    /\ platOut' = get_platforms(pman)
    /\ UNCHANGED <<pman, env>>

CallHostPlatformManifest ==
    /\ platOut' = host_platform_manifest(pman, env)
    /\ UNCHANGED <<pman, env>>

-----------------------------------------------------------------------------
(* get_digest of both registry clients, from the successful response of    *)
(* query_manifest on.  A response is whether it carries the                *)
(* Docker-Content-Digest header, the header's value, its body and whether  *)
(* the body is JSON.                                                       *)

SHA256_HEX_LEN == 64

\* hashlib.sha256(json.dumps(body, indent=3).encode('utf-8')).hexdigest():
\* 64 hex characters that depend on the body
hexdigest(body) == Rep(IF body = "m1" THEN "a" ELSE "b", SHA256_HEX_LEN)

get_digest(im, res) ==
    IF ~res.has_header /\ ~res.is_json THEN Raise("JSONDecodeError")
    ELSE LET digest == IF res.has_header THEN res.header ELSE hexdigest(res.body)
         IN  IF ~ANCHORED_DIGEST(digest)
             THEN Raise(IF im = "client" THEN "ContainerImageError"
                        ELSE "ValidationError")
             ELSE Ok(digest)

\* The header values: an algorithm, with or without the colon, and a hex part
HeaderValues ==
    {alg \o sep \o hex :
        alg \in {<<"s","h","a","2","5","6">>, <<"s","h","a","5","1","2">>,
                 <<"S">>, <<"a","+","b">>, <<"-","x">>, <<>>},
        sep \in {<<":">>, <<>>},
        hex \in {Rep("f", HEX_MIN), Rep("f", HEX_MIN - 1),
                 Rep("A", SHA256_HEX_LEN), Rep("g", HEX_MIN)}}

Responses ==
    {[has_header |-> TRUE, header |-> h, body |-> "m1", is_json |-> TRUE] :
        h \in HeaderValues}
      \cup {[has_header |-> FALSE, header |-> <<>>, body |-> b, is_json |-> j] :
              b \in {"m1", "m2"}, j \in BOOLEAN}

NoResp == [has_header |-> FALSE, header |-> <<>>, body |-> "none", is_json |-> FALSE]

DigestInit ==
    /\ resp \in Responses
    /\ digestOut = NoResult

CallGetDigest(im) ==
    /\ digestOut' = get_digest(im, resp)
    /\ UNCHANGED resp

-----------------------------------------------------------------------------
(* ContainerImageList.diff.  An image is its reference; the lists are      *)
(* sequences of images, and the diff is four sequences of images.          *)

Img(segs, tag, dig) ==
    [str |-> FormatRef(segs, tag, dig), segs |-> segs, tag |-> tag, dig |-> dig]

DiffImages ==
    {Img(<<Q_IO, <<"x">>>>, <<"t">>, <<>>),
     Img(<<Q_IO, <<"x">>>>, <<"v","1",".","2">>, <<>>),
     Img(<<Q_IO, <<"x">>>>, <<>>, SHA_F),
     Img(<<Q_IO, <<"h","-","w">>>>, <<"t">>, <<>>),
     Img(<<HOST_PORT, <<"x">>>>, <<"t">>, <<>>),
     Img(<<HOST_PORT, <<"h","-","w">>>>, <<"t">>, <<>>),
     Img(<<HOST_PORT, <<"x">>>>, <<>>, <<>>)}

ImageLists == UNION {[1..n -> DiffImages] : n \in 0..MaxDiffImages}

\* the keys of a dict in insertion order
RECURSIVE KeysInOrder(_)
KeysInOrder(names) ==
    IF names = <<>> THEN <<>>
    ELSE LET front == KeysInOrder(SubSeq(names, 1, Len(names) - 1))
             n     == names[Len(names)]
         IN  IF \E i \in 1..Len(front) : front[i] = n THEN front
             ELSE Append(front, n)

NoDiff ==
    [called |-> FALSE, ok |-> FALSE, err |-> "",
     common |-> <<>>, updated |-> <<>>, added |-> <<>>, removed |-> <<>>]

diff(current, previous) ==
    LET name(img)  == get_name(img.str).val
        names      == [i \in 1..Len(current) |-> name(current[i])]
                        \o [i \in 1..Len(previous) |-> name(previous[i])]
        keys       == KeysInOrder(names)
        \* images[image_name]['current'], ['previous']: the last one assigned
        idxOf(l, n) == {i \in 1..Len(l) : name(l[i]) = n}
        has(l, n)   == idxOf(l, n) # {}
        at(l, n)    == l[CHOOSE i \in idxOf(l, n) : \A j \in idxOf(l, n) : j <= i]
        both(n)     == has(current, n) /\ has(previous, n)
        cid(n)      == get_identifier(at(current, n).str)
        pid(n)      == get_identifier(at(previous, n).str)
        class(n)    == IF both(n)
                       THEN IF cid(n).val = pid(n).val THEN "common" ELSE "updated"
                       ELSE IF has(current, n) THEN "added" ELSE "removed"
        pick(c)     == LET ks == SelectSeq(keys, LAMBDA n : class(n) = c)
                       IN  [i \in 1..Len(ks) |->
                               IF has(current, ks[i]) THEN at(current, ks[i])
                               ELSE at(previous, ks[i])]
        failing     == {i \in 1..Len(keys) :
                           both(keys[i]) /\ (~cid(keys[i]).ok \/ ~pid(keys[i]).ok)}
    IN  IF failing # {}
        THEN [NoDiff EXCEPT !.called = TRUE, !.err = "NotTagOrDigestRef"]
        ELSE [called |-> TRUE, ok |-> TRUE, err |-> "",
              common |-> pick("common"), updated |-> pick("updated"),
              added |-> pick("added"), removed |-> pick("removed")]

DiffInit ==
    /\ cur \in ImageLists
    /\ prev \in ImageLists
    /\ diffOut = NoDiff

CallDiff ==
    /\ diffOut' = diff(cur, prev)
    /\ UNCHANGED <<cur, prev>>

-----------------------------------------------------------------------------
(* ContainerImageList.delete: the loop over the images, each image's       *)
(* delete being ContainerImage.delete, which is the DELETE operation of    *)
(* the registry client of containerimage.py                                *)

DeleteAuthMaps ==
    {<<>>, <<[key |-> Q_IO, has_auth |-> TRUE, auth |-> "A1"]>>}

\* How the HTTP exchange of one image's delete can go: the number of DELETE
\* requests it takes (two when the first is answered 401 with a challenge
\* and the token is granted) and how it ends
DeleteOutcomes ==
    {[n |-> 1, out |-> "response"], [n |-> 1, out |-> "HTTPError"],
     [n |-> 2, out |-> "response"], [n |-> 2, out |-> "HTTPError"]}

DeleteLists == UNION {[1..n -> DiffImages] : n \in 0..MaxDeleteImages}

DeleteInit ==
    /\ dl \in DeleteLists
    /\ dAuth \in DeleteAuthMaps
    /\ dpc = "idle"
    /\ dIdx = 0
    /\ dReqs = <<>>
    /\ dOps = <<>>
    /\ dOut = "none"

\* ContainerImageList.delete is called
CallListDelete ==
    /\ dpc = "idle"
    /\ dIdx' = 1
    /\ IF dl = <<>>
       THEN dpc' = "done" /\ dOut' = "returned"
       ELSE dpc' = "running" /\ dOut' = "none"
    /\ UNCHANGED <<dl, dAuth, dReqs, dOps>>

ImageDelete_keepGoing(o) ==
    /\ dpc = "running"
    /\ dIdx <= Len(dl)
    /\ LET prep == Prepare("delete", "containerimage", dl[dIdx].str, dAuth)
       IN  /\ IF ~prep.ok
              THEN /\ dOps' = Append(dOps, [n |-> 0, out |-> prep.err])
                   /\ UNCHANGED dReqs
              ELSE /\ o.n = 2 => NeedsTokenDance("containerimage", prep.found, 401, CH_REALM_SERVICE)
                   /\ dReqs' = dReqs \o [k \in 1..o.n |->
                                           [img |-> dIdx, method |-> prep.request.method,
                                            url |-> prep.request.url,
                                            identifier |-> get_identifier(dl[dIdx].str).val]]
                   /\ dOps' = Append(dOps, o)
           /\ dIdx' = dIdx + 1
           /\ IF dIdx = Len(dl)
              THEN dpc' = "done" /\ dOut' = dOps'[Len(dOps')].out
              ELSE UNCHANGED <<dpc, dOut>>
    /\ UNCHANGED <<dl, dAuth>>

\* One turn of the loop: image.delete(auth), from its first statement to
\* its return or its exception
ImageDelete(o) ==
    /\ dpc = "running"
    /\ dIdx <= Len(dl)
    /\ LET prep == Prepare("delete", "containerimage", dl[dIdx].str, dAuth)
       IN  IF ~prep.ok
           THEN /\ dOps' = Append(dOps, [n |-> 0, out |-> prep.err])
                /\ dpc' = "done"
                /\ dOut' = prep.err
                /\ UNCHANGED <<dIdx, dReqs>>
           ELSE /\ o.n = 2 => NeedsTokenDance("containerimage", prep.found, 401, CH_REALM_SERVICE)
                /\ dReqs' = dReqs \o [k \in 1..o.n |->
                                        [img |-> dIdx, method |-> prep.request.method,
                                         url |-> prep.request.url,
                                         identifier |-> get_identifier(dl[dIdx].str).val]]
                /\ dOps' = Append(dOps, o)
                /\ IF o.out # "response"
                   THEN dpc' = "done" /\ dOut' = o.out /\ UNCHANGED dIdx
                   ELSE /\ dIdx' = dIdx + 1
                        /\ IF dIdx = Len(dl)
                           THEN dpc' = "done" /\ dOut' = "returned"
                           ELSE UNCHANGED <<dpc, dOut>>
    /\ UNCHANGED <<dl, dAuth>>

-----------------------------------------------------------------------------
(* Defaults of the variables a specification does not use *)

AuthIdle ==
    /\ auths = <<>>
    /\ authRef = <<>>
    /\ authOut = AuthNotCalled

RefIdle ==
    /\ ref = NotARef(<<>>)
    /\ call = "none"
    /\ result = NoResult

DocIdle ==
    /\ raw = NoRaw
    /\ made = NotMade

DigestIdle ==
    /\ resp = NoResp
    /\ digestOut = NoResult

DiffIdle ==
    /\ cur = <<>>
    /\ prev = <<>>
    /\ diffOut = NoDiff

DescriptorIdle ==
    /\ desc = NoDesc
    /\ descOut = NotConstructed

PlatformIdle ==
    /\ pman = [kind |-> "none", entries |-> <<>>, config |-> NoPlatform]
    /\ env = [HOST_OS |-> <<>>, HOST_ARCH |-> <<>>]
    /\ platOut = PlatNotCalled

DeleteIdle ==
    /\ dl = <<>>
    /\ dAuth = <<>>
    /\ dpc = "idle"
    /\ dIdx = 0
    /\ dReqs = <<>>
    /\ dOps = <<>>
    /\ dOut = "none"

LibIdle == DocIdle /\ DigestIdle /\ DiffIdle /\ DescriptorIdle /\ PlatformIdle /\ DeleteIdle

-----------------------------------------------------------------------------
(* Properties of the reference parser, under RefSpec *)

\* What the reference was built from
BuiltName       == Join(ref.segs, "/")
BuiltIdentifier == IF ref.dig # <<>> THEN ref.dig
                   ELSE IF ref.tag # <<>> THEN ref.tag
                   ELSE LATEST
BuiltPath       == Join(SubSeq(ref.segs, 2, Len(ref.segs) - 1), "/")
BuiltUrlDomain  == IF ref.segs[1] = DOCKER_IO THEN REGISTRY_1_DOCKER_IO
                   ELSE ref.segs[1]

\* Every reference the generator builds matches the anchored reference
\* pattern, and none of the other strings does
RefInputsAreWhatTheyClaim == ref.built <=> validate_static(ref.str)

\* C4: for every valid reference get_identifier returns the digest if an
\* @digest suffix is present, otherwise the tag if a :tag suffix is present,
\* otherwise 'latest', and it never fails on a valid reference (a registry
\* with a port included).
C4_IdentifierIsDigestElseTagElseLatest ==
    (ref.built /\ call = "get_identifier") => result = Ok(BuiltIdentifier)

\* C5: for every valid reference get_name returns the reference without its
\* :tag and @digest suffixes and nothing else removed, and get_registry
\* returns the first slash-separated segment of that name, port included.
C5_NameAndRegistryKeepThePort ==
    /\ (ref.built /\ call = "get_name") => result = Ok(BuiltName)
    /\ (ref.built /\ call = "get_registry") => result = Ok(ref.segs[1])

\* C6: for every valid reference get_path returns the components of the
\* name strictly between the registry and the short name.
C6_PathExcludesRegistryAndShortName ==
    (ref.built /\ call = "get_path") => result = Ok(BuiltPath)

\* C7: for every valid reference registry/p1/.../pn/short[:tag][@digest],
\* n >= 0, get_registry_base_url returns https://D/v2/ followed by the path
\* components and the short name joined by single slashes, D being the
\* registry with docker.io rewritten to registry-1.docker.io; an invalid
\* reference raises.
C7_BaseUrlHasNoEmptySegment ==
    call = "get_registry_base_url" =>
        /\ (ref.built /\ Len(ref.segs) >= 2) =>
              result = Ok(HTTPS \o BuiltUrlDomain \o V2 \o Join(Tail(ref.segs), "/"))
        /\ ~ref.built => ~result.ok

\* C19: every valid reference is exactly one of digest-ref or tag-ref:
\* is_digest_ref is true iff an @digest suffix is present (with or without a
\* tag), and is_tag_ref is true for every other valid reference, a bare name
\* with no tag and a name whose registry domain has a port included; the two
\* predicates are never both true and never both false.
C19_ExactlyOneOfDigestRefAndTagRef ==
    (ref.built /\ call \in {"is_digest_ref", "is_tag_ref"}) =>
        /\ call = "is_digest_ref" => result = Ok(Bool(ref.dig # <<>>))
        /\ call = "is_tag_ref" => result = Ok(Bool(ref.dig = <<>>))
        /\ is_digest_ref(ref.str) # is_tag_ref(ref.str)

-----------------------------------------------------------------------------
(* Properties of credential selection, under AuthSpec *)

\* The keys of the auth map that are a leading substring of the reference
MatchingKeys == {auths[i].key : i \in {j \in 1..Len(auths) : StartsWith(authRef, auths[j].key)}}
LongestMatchingKey ==
    CHOOSE k \in MatchingKeys : \A k2 \in MatchingKeys : Len(k2) <= Len(k)
Reordered(a, p) == [i \in 1..Len(a) |-> a[p[i]]]

\* C3: get_registry_auth returns (the auth field of the longest key that is
\* a leading substring of the reference, found = true) whenever at least one
\* key is a leading substring of it, ('', found = false) exactly when no key
\* is, and the iteration order of the keys does not affect the result.
C3_LongestPrefixAuth ==
    authOut.err # "not called" =>
        /\ (MatchingKeys # {} /\ EntryOf(auths, LongestMatchingKey).has_auth) =>
              authOut = AuthResult(EntryOf(auths, LongestMatchingKey).auth, TRUE)
        /\ authOut = AuthResult("", FALSE) <=> MatchingKeys = {}
        /\ \A p \in Permutations(1..Len(auths)) :
              get_registry_auth(authRef, Reordered(auths, p)) = authOut

-----------------------------------------------------------------------------
(* Properties of the request state machine, under ClientSpec *)

TokenSucceeded(t) == ~raise_for_status(t.status) /\ t.body = "token"
Challenged == first.status = 401 /\ first.challenge # NoHeader

\* C1: in every registry operation the original request is sent at most
\* twice and the token service is queried at most once; after a challenge
\* and a successful token fetch the request is resent exactly once, and
\* whatever answers the resent request ends the operation, a 401 or any
\* other error status in an error, with no further token request or resend.
C1_AtMostOneRetry ==
    /\ [](nSent <= 2 /\ nToken <= 1)
    /\ [](pc = "wait2" => (nSent = 2 /\ nToken = 1))
    /\ [][(pc = "waitToken" /\ TokenSucceeded(tok')) =>
             (pc' = "wait2" /\ nSent' = nSent + 1 /\ Len(reqs') = Len(reqs) + 1)]_vars
    /\ [][pc = "wait2" =>
             /\ pc' = "done"
             /\ nSent' = nSent /\ nToken' = nToken /\ reqs' = reqs
             /\ raise_for_status(final') => outcome' = "HTTPError"]_vars

\* An operation whose resent request was answered 401 again has ended in an
\* error after two sends and one token request
C1_Witness ==
    pc = "done" /\ nSent = 2 /\ nToken = 1 /\ final = 401 /\ outcome = "HTTPError"

\* C2: the token service is contacted only after a first response with
\* status 401 and a Www-Authenticate header, and the resend happens only
\* after the token request succeeded; a 2xx first response gives the result
\* at once, any other error status of the first response (a 401 without the
\* header included) ends in an error with no token request and no resend,
\* and a failing token request ends in an error with no resend.
C2_TokenOnlyAfterChallenge ==
    /\ nToken >= 1 => Challenged
    /\ nSent >= 2 => (nToken = 1 /\ TokenSucceeded(tok))
    /\ (pc = "done" /\ first.status >= 200 /\ first.status <= 299) =>
          (outcome = "response" /\ nSent = 1 /\ nToken = 0)
    /\ (pc = "done" /\ raise_for_status(first.status) /\ ~Challenged) =>
          (outcome = "HTTPError" /\ nSent = 1 /\ nToken = 0)
    /\ (pc = "done" /\ nToken = 1 /\ raise_for_status(tok.status)) =>
          (outcome = "HTTPError" /\ nSent = 1)

\* An operation was challenged, asked for a token, was refused one and
\* ended without resending
C2_Witness ==
    pc = "done" /\ Challenged /\ nToken = 1 /\ tok.status = 401 /\ nSent = 1

\* The status of the last response to the manifest request itself
LastManifestStatus == IF nSent >= 2 THEN final ELSE first.status

\* C12: exists(auth) returns true exactly when the manifest request (after
\* the optional single challenge retry) succeeds, returns false exactly
\* when the final response to the manifest request has status 404, and
\* propagates every other error to the caller.
C12_ExistsFalseExactlyOnManifest404 ==
    (pc = "done" /\ op.kind = "exists") =>
        /\ existsOut \in {"True", "False", "raise"}
        /\ existsOut = "True" <=> outcome = "response"
        /\ existsOut = "False" <=> (nSent >= 1 /\ LastManifestStatus = 404)

\* C13 (DigestSpec): for every successful manifest response get_digest
\* returns a string matching the anchored digest pattern: the
\* Docker-Content-Digest header value when the header is present, otherwise
\* 'sha256:' followed by the hex SHA-256 of the re-serialized body; it fails
\* only when a present header value does not match the digest pattern.
C13_DigestFromHeaderOrBody ==
    (digestOut # NoResult /\ (resp.has_header \/ resp.is_json)) =>
        /\ digestOut.ok => ANCHORED_DIGEST(digestOut.val)
        /\ (resp.has_header /\ ANCHORED_DIGEST(resp.header)) =>
              digestOut = Ok(resp.header)
        /\ ~resp.has_header =>
              digestOut = Ok(<<"s","h","a","2","5","6",":">> \o hexdigest(resp.body))
        /\ ~digestOut.ok => (resp.has_header /\ ~ANCHORED_DIGEST(resp.header))

ParsableChallenge == Challenged /\ parse_challenge(first.challenge).ok

\* C15 (ClientSpec): when no key of the auth map matches the reference and
\* the registry answers the first request with 401 and a Www-Authenticate
\* challenge, the client still performs the token request, sends it without
\* any Authorization header, and resends the original request once with
\* 'Authorization: <scheme> <token>', the scheme being the one named in the
\* challenge; when credentials matched, the token request carries
\* 'Authorization: Basic <auth>'.
C15_TokenRequestAuthorization ==
    ParsableChallenge =>
        /\ nToken = 1
        /\ Len(reqs) >= 2
        /\ reqs[2].to = "token"
        /\ ~op.found => reqs[2].scheme = <<>>
        /\ op.found => (reqs[2].scheme = BASIC /\ reqs[2].cred = op.reg_auth)
        /\ TokenSucceeded(tok) =>
              /\ nSent = 2
              /\ Len(reqs) = 3
              /\ reqs[3] = [reqs[1] EXCEPT
                               !.scheme = parse_challenge(first.challenge).scheme,
                               !.cred = TOKEN]

\* what a challenge of the form <scheme> k1="v1",k2="v2" says: its scheme,
\* its realm and its other parameters
ChallengeSays(ch) ==
    IF ch = CH_REALM_SERVICE
    THEN [scheme |-> BEARER, realm |-> <<"r">>, params |-> <<[k |-> SERVICE, v |-> <<"s">>]>>]
    ELSE [scheme |-> BEARER, realm |-> <<"r">>,
          params |-> <<[k |-> SCOPE, v |-> <<"a",":","p",",","q">>]>>]

RealmChallenges == {CH_REALM_SERVICE, CH_SCOPE_COMMA}

TokenUrlOf(ch) ==
    (first.challenge = ch /\ NeedsTokenDance(op.impl, op.found, first.status, ch)) =>
        /\ Len(reqs) >= 2
        /\ reqs[2].to = "token"
        /\ reqs[2].url = ChallengeSays(ch).realm \o <<"?">>
                            \o urlencode(ChallengeSays(ch).params)
        /\ TokenSucceeded(tok) =>
              /\ Len(reqs) >= 3
              /\ reqs[3].scheme = ChallengeSays(ch).scheme
              /\ reqs[3].cred = TOKEN

\* C28 (ClientSpec): for every challenge header of the form
\* '<scheme> k1="v1",k2="v2",...' that contains a realm parameter,
\* get_auth_token requests the URL realm + '?' + the url-encoded remaining
\* parameters, with every parameter present once and its value unquoted and
\* intact, also when a quoted value contains a comma or an equals sign (for
\* example scope="repository:a/b:pull,push"), and returns the challenge's
\* scheme together with the token field of the JSON response.
C28_TokenUrlKeepsEveryParameter == \A ch \in RealmChallenges : TokenUrlOf(ch)

\* C16 (ClientSpec): every registry-client operation returns a response only
\* when the final response status is in 200..299, and ends in an error for
\* every final status outside that range (1xx, 3xx, 4xx and 5xx alike).
C16_ResponseOnlyOn2xx ==
    (pc = "done" /\ final # 0) =>
        (outcome = "response" <=> final \in 200..299)

\* The keys of the operation's auth map that are a leading substring of its
\* reference, and the longest of them
OpMatchingKeys ==
    {auths[i].key : i \in {j \in 1..Len(auths) : StartsWith(op.ref, auths[j].key)}}
OpLongestKey ==
    CHOOSE k \in OpMatchingKeys : \A k2 \in OpMatchingKeys : Len(k2) <= Len(k)

\* C17 (ClientSpec): if the entry of the longest matching auth key has no auth
\* field, the operation fails before any HTTP request is sent, even when a
\* shorter matching key has an auth field; if no key matches, the first
\* request is sent with no Authorization header; if a key matches and has an
\* auth field, the first request carries 'Authorization: Basic <auth>' of
\* that key.
C17_FirstRequestCredentials ==
    pc # "idle" =>
        /\ (OpMatchingKeys # {} /\ ~EntryOf(auths, OpLongestKey).has_auth) =>
              (nSent = 0 /\ reqs = <<>> /\ pc = "done" /\ outcome # "response")
        /\ (OpMatchingKeys = {} /\ nSent >= 1) => reqs[1].scheme = <<>>
        /\ (OpMatchingKeys # {} /\ EntryOf(auths, OpLongestKey).has_auth /\ nSent >= 1) =>
              (reqs[1].scheme = BASIC /\ reqs[1].cred = EntryOf(auths, OpLongestKey).auth)

\* C18 (ClientSpec): every manifest GET issued by the registry client, both
\* the initial request and the resend after the token dance, carries an
\* Accept header listing the v2s2 list, v2s2 manifest, OCI index, OCI
\* manifest, v2s1 and v2s1-signed media types.
C18_ManifestRequestsCarryAccept ==
    op.kind \in {"manifest", "exists"} =>
        \A i \in 1..Len(reqs) :
            reqs[i].to = "registry" =>
                /\ reqs[i].method = "GET"
                /\ reqs[i].accept = DEFAULT_REQUEST_MANIFEST_MEDIA_TYPES

-----------------------------------------------------------------------------
(* Properties of the diff of two image lists, under DiffSpec *)

ImageName(img) == Join(img.segs, "/")
ImageIdentifier(img) ==
    IF img.dig # <<>> THEN img.dig ELSE IF img.tag # <<>> THEN img.tag ELSE LATEST

ImagesNamed(l, n) == {l[i] : i \in {j \in 1..Len(l) : ImageName(l[j]) = n}}
InSeq(l, S) == \E i \in 1..Len(l) : l[i] \in S
CountNamed(l, n) == Cardinality({i \in 1..Len(l) : ImageName(l[i]) = n})

DiffClassifiesByName ==
    diffOut.called =>
        /\ diffOut.ok
        /\ \A n \in {ImageName(i) : i \in DiffImages} :
              LET C == ImagesNamed(cur, n)
                  P == ImagesNamed(prev, n)
              IN  (C # {} \/ P # {}) =>
                    /\ (C # {} /\ P # {}
                          /\ \A c \in C, p \in P : ImageIdentifier(c) = ImageIdentifier(p))
                          => InSeq(diffOut.common, C)
                    /\ (C # {} /\ P # {}
                          /\ \A c \in C, p \in P : ImageIdentifier(c) # ImageIdentifier(p))
                          => InSeq(diffOut.updated, C)
                    /\ (C # {} /\ P = {}) => InSeq(diffOut.added, C)
                    /\ (C = {} /\ P # {}) => InSeq(diffOut.removed, P)
                    /\ CountNamed(diffOut.common, n) + CountNamed(diffOut.updated, n)
                         + CountNamed(diffOut.added, n) + CountNamed(diffOut.removed, n) = 1

\* C14 (DiffSpec): current.diff(previous) classifies by image name: a name in
\* both lists with equal identifiers puts the current-side image in common,
\* with different identifiers in updated, a name only in the receiver puts
\* its image in added, a name only in previous puts its image in removed;
\* every name of either list lands in exactly one of the four sets, and
\* neither input list is modified.
C14_DiffClassifiesEveryName ==
    /\ []DiffClassifiesByName
    /\ [][cur' = cur /\ prev' = prev]_vars

InExactlyOne(img, seqs) ==
    Cardinality({k \in 1..Len(seqs) : InSeq(seqs[k], {img})}) = 1

\* C30 (DiffSpec): for any two image lists, also when a list holds several
\* images with the same name, current.diff(previous) accounts for every
\* image: each image of the receiver appears in exactly one of added,
\* updated, common, and each image of previous whose name does not occur in
\* the receiver appears in removed, so len(added) + len(updated) +
\* len(common) equals len(current).
C30_DiffAccountsForEveryImage ==
    diffOut.called =>
        /\ diffOut.ok
        /\ \A i \in 1..Len(cur) :
              InExactlyOne(cur[i], <<diffOut.added, diffOut.updated, diffOut.common>>)
        /\ \A j \in 1..Len(prev) :
              ImagesNamed(cur, ImageName(prev[j])) = {} => InSeq(diffOut.removed, {prev[j]})
        /\ Len(diffOut.added) + Len(diffOut.updated) + Len(diffOut.common) = Len(cur)

-----------------------------------------------------------------------------
(* Properties of the size accounting *)

Digs(descs) == {descs[i].digest : i \in 1..Len(descs)}

\* The sums that count every distinct digest of descs once, with the size
\* of one of the descriptors that carry it
OncePerDigest(descs) ==
    {SumDict(f) : f \in {g \in [Digs(descs) -> SizeVals] :
        \A d \in Digs(descs) :
            \E i \in 1..Len(descs) : descs[i].digest = d /\ descs[i].size = g[d]}}

RECURSIVE ChildLayers(_)
ChildLayers(es) ==
    IF es = <<>> THEN <<>> ELSE Head(es).child.layers \o ChildLayers(Tail(es))

ChildConfigs(es) == [i \in 1..Len(es) |-> es[i].child.config]

RECURSIVE AllLayers(_)
AllLayers(imgs) ==
    IF imgs = <<>> THEN <<>>
    ELSE (IF Head(imgs).kind = "list" THEN ChildLayers(Head(imgs).entries)
          ELSE Head(imgs).layers) \o AllLayers(Tail(imgs))

RECURSIVE AllConfigs(_)
AllConfigs(imgs) ==
    IF imgs = <<>> THEN <<>>
    ELSE (IF Head(imgs).kind = "list" THEN ChildConfigs(Head(imgs).entries)
          ELSE <<Head(imgs).config>>) \o AllConfigs(Tail(imgs))

RECURSIVE AllEntrySizes(_)
AllEntrySizes(imgs) ==
    IF imgs = <<>> THEN 0
    ELSE (IF Head(imgs).kind = "list" THEN SumSizes(Head(imgs).entries) ELSE 0)
           + AllEntrySizes(Tail(imgs))

\* C8 (ManifestSpec): for every schema-valid manifest, zero layers
\* included, get_size returns size(config) plus the sizes of the layers
\* counted once per distinct digest, and appending a copy of a listed layer
\* descriptor leaves the result unchanged.
C8_ManifestSizeDedupsLayers ==
    (szPc = "done" /\ doc.kind = "manifest") =>
        /\ szOut.ok
        /\ szOut.val \in {doc.config.size + l : l \in OncePerDigest(doc.layers)}
        /\ \A k \in 1..Len(doc.layers) :
              manifest_get_size([doc EXCEPT !.layers = Append(@, doc.layers[k])]) = szOut

\* C9 (FatSpec): for a fat manifest whose children are all served,
\* get_size returns the sum of all entry sizes plus the sizes of the
\* distinct config digests plus the sizes of the distinct layer digests
\* over all child manifests.
C9_FatSizeDedupsAcrossChildren ==
    (szPc = "done" /\ doc.kind = "list" /\ szOut.err # "HTTPError") =>
        /\ szOut.ok
        /\ szOut.val \in {SumSizes(doc.entries) + c + l :
                             c \in OncePerDigest(ChildConfigs(doc.entries)),
                             l \in OncePerDigest(ChildLayers(doc.entries))}

\* C10 (ListSpec): ContainerImageList.get_size returns the entry sizes of
\* every fat-manifest image of the list plus the sizes of the distinct
\* config digests and of the distinct layer digests over all images of the
\* list together.
C10_ListSizeDedupsAcrossImages ==
    szPc = "done" =>
        /\ szOut.ok
        /\ szOut.val \in {AllEntrySizes(images) + c + l :
                             c \in OncePerDigest(AllConfigs(images)),
                             l \in OncePerDigest(AllLayers(images))}

Perms(n) == {p \in [1..n -> 1..n] : \A i, j \in 1..n : p[i] = p[j] => i = j}
Permute(s, p) == [i \in 1..Len(s) |-> s[p[i]]]

\* the operator fat_get_size is the size the fat spec's steps arrive at
FatSizeIsGetSize ==
    (szPc = "done" /\ doc.kind = "list" /\ szOut.err # "HTTPError") =>
        szOut = fat_get_size(doc.entries)

\* C27: the size computed for a fat manifest is invariant under any
\* permutation of the manifest-list entries and of the layers inside a
\* child manifest, whatever sizes the descriptors declare (the aggregation
\* of child results is commutative and associative); the claim says the
\* same of an image list and the order of its images.
C27_SizeIsPermutationInvariant ==
    (szPc = "done" /\ doc.kind = "list" /\ szOut.ok) =>
        /\ \A p \in Perms(Len(doc.entries)) :
              fat_get_size(Permute(doc.entries, p)) = szOut
        /\ \A k \in 1..Len(doc.entries) :
              \A p \in Perms(Len(doc.entries[k].child.layers)) :
                  fat_get_size([doc.entries EXCEPT ![k].child.layers = Permute(@, p)])
                      = szOut

RequestsOf(i) == {j \in 1..Len(fetched) : fetched[j] = i}

\* a fat size that is returned follows a manifest of every child, each
\* with its layers
TotalOnlyAfterEveryChild ==
    (szPc = "done" /\ doc.kind = "list" /\ szOut.ok) =>
        \A i \in 1..Len(doc.entries) :
            /\ RequestsOf(i) # {}
            /\ get_layer_descriptors(doc.entries[i].child).ok

\* a child that fails ends the computation: the error is the caller's, no
\* total is returned and no later child is requested
ChildFailureEndsTheLoop ==
    (szPc = "done" /\ doc.kind = "list" /\ ~szOut.ok) =>
        /\ szOut.err \in {"HTTPError", get_layer_descriptors(doc.entries[szAcc.i].child).err}
        /\ szOut.val = 0
        /\ \A i \in (szAcc.i + 1)..Len(doc.entries) : RequestsOf(i) = {}

\* C29: while computing the size of a fat manifest, the child manifests are
\* requested one after another in entry order, exactly one manifest request
\* per entry; if the request or the parsing of some child fails, the error
\* propagates to the caller, no total (not even a partial one) is returned,
\* and no child after the failing one is requested.
C29_ChildrenRequestedOnceInOrder ==
    doc.kind = "list" =>
        /\ \A j \in 1..Len(fetched) : fetched[j] = j
        /\ TotalOnlyAfterEveryChild
        /\ ChildFailureEndsTheLoop

\* C29, amended: while computing the size of a fat manifest, the child
\* manifests are requested one after another in entry order, one manifest
\* request per entry, or two when the first is answered 401 with a challenge
\* (the one challenge-retry); if the request or the parsing of some child
\* fails, the error propagates to the caller, no total (not even a partial
\* one) is returned, and no child after the failing one is requested.
C29_ChildrenRequestedInOrderWithRetry ==
    doc.kind = "list" =>
        /\ \A j, k \in 1..Len(fetched) : j < k => fetched[j] <= fetched[k]
        /\ \A i \in 1..Len(doc.entries) :
              /\ Cardinality(RequestsOf(i)) <= 2
              /\ RequestsOf(i) # {} => \A h \in 1..(i - 1) : RequestsOf(h) # {}
        /\ TotalOnlyAfterEveryChild
        /\ ChildFailureEndsTheLoop

\* the first of two children takes two requests, the second one fails and
\* no size is returned
C29_Witness ==
    /\ doc.kind = "list"
    /\ szPc = "done"
    /\ fetched = <<1, 1, 2>>
    /\ szOut.err = "HTTPError"

-----------------------------------------------------------------------------
(* Properties of the documents, under DocSpec *)

\* C11: ContainerImageManifestFactory.create(d) returns an instance of
\* variant V exactly when d validates under V and under no variant earlier
\* in the order v2s2 manifest, v2s2 list, OCI manifest, OCI index; it raises
\* exactly when d validates under none of the four (the empty object for
\* one); and a returned object passes its own variant's validate().
C11_FactoryReturnsFirstValidVariant ==
    /\ made.call = "create" =>
          /\ \A i \in 1..Len(Variants) :
                (made.ok /\ made.variant = Variants[i]) <=>
                    /\ validate_static_of(Variants[i], raw)
                    /\ \A j \in 1..(i - 1) : ~validate_static_of(Variants[j], raw)
          /\ ~made.ok <=> \A i \in 1..Len(Variants) : ~validate_static_of(Variants[i], raw)
          /\ raw.has = {} => ~made.ok
    /\ made.call = "validate" => made.ok

\* The factory returned a v2s2 manifest for a document that is a valid OCI
\* manifest as well, and the object passed its validate()
C11_Witness ==
    /\ made.call = "validate"
    /\ made.variant = V2S2_MANIFEST
    /\ made.ok
    /\ validate_static_of(OCI_MANIFEST, raw)

\* C21: every manifest and manifest list accepted by validation (v2s2
\* manifest, v2s2 list, OCI manifest, OCI index) has schemaVersion equal to 2;
\* a document with any other schemaVersion is rejected by all four validators
\* and by the factory.
C21_SchemaVersionIsTwo ==
    (made.call \in {"validate_static", "create"} /\ made.ok) =>
        raw.schemaVersion = IntVal(2)

\* The document without its mediaType, and with its entries' platforms removed
WithoutMediaType(d) == [d EXCEPT !.has = d.has \ {"mediaType"}, !.mediaType = ""]
WithoutPlatforms(d) ==
    [d EXCEPT !.manifests =
        [i \in 1..Len(d.manifests) |->
            [d.manifests[i] EXCEPT !.has = d.manifests[i].has \ {"platform"}]]]

\* C20: variant validation enforces the required fields and the forbidden
\* media types: a v2s2 manifest and a v2s2 list require mediaType and are
\* rejected when mediaType is the OCI manifest type respectively the OCI index
\* type; an OCI manifest and an OCI index accept a missing mediaType and are
\* rejected when mediaType is the v2s2 manifest type respectively the v2s2
\* list type; every v2s2 list entry must have mediaType, size, digest and
\* platform, while an OCI index entry may omit platform.
C20_RequiredFieldsAndForbiddenMediaTypes ==
    made.call = "validate_static" =>
        /\ (made.variant \in {V2S2_MANIFEST, V2S2_LIST} /\ made.ok) =>
              "mediaType" \in raw.has
        /\ (made.variant = V2S2_MANIFEST /\ raw.mediaType = OCI_MANIFEST_MEDIA_TYPE) =>
              ~made.ok
        /\ (made.variant = V2S2_LIST /\ raw.mediaType = OCI_INDEX_MEDIA_TYPE) =>
              ~made.ok
        /\ (made.variant \in {OCI_MANIFEST, OCI_INDEX} /\ made.ok) =>
              validate_static_of(made.variant, WithoutMediaType(raw))
        /\ (made.variant = OCI_MANIFEST /\ raw.mediaType = DOCKER_V2S2_MEDIA_TYPE) =>
              ~made.ok
        /\ (made.variant = OCI_INDEX /\ raw.mediaType = DOCKER_V2S2_LIST_MEDIA_TYPE) =>
              ~made.ok
        /\ (made.variant = V2S2_LIST /\ made.ok) =>
              \A i \in 1..Len(raw.manifests) : ENTRY_KEYS \subseteq raw.manifests[i].has
        /\ (made.variant = OCI_INDEX /\ made.ok) =>
              validate_static_of(OCI_INDEX, WithoutPlatforms(raw))

\* An OCI index without mediaType whose entry has no platform passes the
\* OCI index validation and fails the v2s2 list validation
C20_Witness ==
    /\ made.call = "validate_static" /\ made.variant = OCI_INDEX /\ made.ok
    /\ "mediaType" \notin raw.has
    /\ Len(raw.manifests) = 1 /\ "platform" \notin raw.manifests[1].has
    /\ ~validate_static_of(V2S2_LIST, raw)

\* C26: no document validates both as a v2s2 variant and as an OCI variant:
\* for every JSON object d handed to the validators or the factory, (d is a
\* valid v2s2 manifest or v2s2 list) and (d is a valid OCI manifest or OCI
\* index) never hold together, whatever the value of d's mediaType, so the
\* factory's probe order never decides the result.
C26_V2S2AndOCIAreDisjoint ==
    made.call \in {"validate_static", "create"} =>
        /\ ~(/\ validate_static_of(V2S2_MANIFEST, raw) \/ validate_static_of(V2S2_LIST, raw)
             /\ validate_static_of(OCI_MANIFEST, raw) \/ validate_static_of(OCI_INDEX, raw))
        /\ (made.call = "create" /\ made.ok) =>
              create_ociFirst("manifestfactory", raw).variant = made.variant

-----------------------------------------------------------------------------
(* Properties of descriptor construction, under DescriptorSpec *)

\* C22: a ContainerImageDescriptor can be constructed only from a document
\* that has mediaType, size and digest, whose size is a non-negative integer
\* and whose digest matches the anchored digest pattern; every other document
\* (missing field, wrong type, negative size, malformed digest, unknown extra
\* field) is rejected at construction.
C22_DescriptorConstructedOnlyIfValid ==
    descOut.called =>
        (descOut.ok <=>
            /\ {"mediaType", "size", "digest"} \subseteq desc.has
            /\ desc.has \subseteq DESC_PROPERTIES
            /\ desc.size.t = "integer"
            /\ desc.size.v >= 0
            /\ ANCHORED_DIGEST(desc.digest))

-----------------------------------------------------------------------------
(* Properties of the platforms, under PlatformSpec *)

\* C23: get_platforms returns, for a single-arch image, a one-element list
\* holding the platform derived from its config blob, and for every
\* schema-valid fat manifest (v2s2 list or OCI index, whose entries may omit
\* platform) the list of its entries' platforms in entry order, without
\* fetching any child manifest.
C23_PlatformsOfConfigOrEntries ==
    platOut.call = "get_platforms" =>
        /\ platOut.ok
        /\ \A i \in 1..Len(platOut.fetched) : platOut.fetched[i] # "child"
        /\ IF pman.kind \in {V2S2_MANIFEST, OCI_MANIFEST}
           THEN /\ Len(platOut.platforms) = 1
                /\ platOut.platforms[1].os = pman.config.os
                /\ platOut.platforms[1].architecture = pman.config.architecture
                /\ platOut.platforms[1].variant = pman.config.variant
           ELSE /\ Len(platOut.platforms) = Len(pman.entries)
                /\ \A i \in 1..Len(pman.entries) :
                      pman.entries[i].has_platform =>
                          platOut.platforms[i] = pman.entries[i].platform

\* C24: for any fat manifest containing an entry with platform p (with or
\* without a variant), when HOST_OS and HOST_ARCH are set to p's os and
\* architecture, host-platform selection picks an entry with platform p
\* instead of failing with no matching platform.
C24_HostPlatformEntryIsPicked ==
    (platOut.call = "host_platform_manifest" /\ is_manifest_list_static(pman)) =>
        \A i \in 1..Len(pman.entries) :
            (/\ pman.entries[i].has_platform
             /\ pman.entries[i].platform.os = env.HOST_OS
             /\ pman.entries[i].platform.architecture = env.HOST_ARCH) =>
                /\ platOut.ok
                /\ platOut.picked \in 1..Len(pman.entries)
                /\ pman.entries[platOut.picked].platform.os = env.HOST_OS
                /\ pman.entries[platOut.picked].platform.architecture = env.HOST_ARCH

-----------------------------------------------------------------------------
(* Properties of ContainerImageList.delete, under DeleteSpec *)

DeletesOf(i) == {k \in 1..Len(dReqs) : dReqs[k].img = i}

\* the DELETE requests come in list order, one per image
OneDeletePerImageInOrder ==
    /\ \A k \in 1..Len(dReqs) : dReqs[k].method = "DELETE"
    /\ \A j, k \in 1..Len(dReqs) : j < k => dReqs[j].img < dReqs[k].img

\* the DELETE requests come in list order, one per image and a second one
\* only for an image whose credentials were found
DeletesInOrderWithOneRetry ==
    /\ \A k \in 1..Len(dReqs) : dReqs[k].method = "DELETE"
    /\ \A j, k \in 1..Len(dReqs) : j < k => dReqs[j].img <= dReqs[k].img
    /\ \A i \in 1..Len(dl) :
          /\ Cardinality(DeletesOf(i)) <= 2
          /\ Cardinality(DeletesOf(i)) = 2 => get_registry_auth(dl[i].str, dAuth).found

\* every DELETE names the image it is sent for
DeletesNameTheirImage ==
    \A k \in 1..Len(dReqs) : dReqs[k].identifier = ImageIdentifier(dl[dReqs[k].img])

\* delete returns only after a successful DELETE for every image
ReturnsAfterDeletingAll ==
    dOut = "returned" =>
        \A i \in 1..Len(dl) : DeletesOf(i) # {} /\ dOps[i].out = "response"

\* a failure ends the loop: the error is the caller's, the images before
\* stay deleted and nothing is sent for the images after
FailureEndsTheLoop ==
    (dpc = "done" /\ dOut # "returned") =>
        /\ dOps # <<>>
        /\ dOut = dOps[Len(dOps)].out
        /\ \A i \in 1..(Len(dOps) - 1) : DeletesOf(i) # {} /\ dOps[i].out = "response"
        /\ \A i \in (Len(dOps) + 1)..Len(dl) : DeletesOf(i) = {}

\* C25: ContainerImageList.delete sends one DELETE per image in list order
\* and, when all of them succeed, every image of the list has been deleted;
\* when the delete of some image fails, the error surfaces to the caller
\* unmodified, the images before it stay deleted and no DELETE is attempted
\* for the images after it.
C25_DeleteEveryImageInOrder ==
    /\ OneDeletePerImageInOrder
    /\ DeletesNameTheirImage
    /\ ReturnsAfterDeletingAll
    /\ FailureEndsTheLoop

\* C25, amended: ContainerImageList.delete deletes the images in list
\* order, one DELETE per image, or two when the first is answered 401 with
\* a challenge and credentials were found for the image; when all deletes
\* succeed every image of the list has been deleted; when the delete of
\* some image fails, the error surfaces to the caller unmodified, the
\* images before it stay deleted and no DELETE is attempted for the images
\* after it.
C25_DeleteEveryImageInOrderWithRetry ==
    /\ DeletesInOrderWithOneRetry
    /\ DeletesNameTheirImage
    /\ ReturnsAfterDeletingAll
    /\ FailureEndsTheLoop

\* the first of two images is deleted at the second attempt, the delete of
\* the second one fails
C25_Witness ==
    /\ Len(dl) = 2
    /\ dpc = "done"
    /\ dOut = "HTTPError"
    /\ Len(dOps) = 2
    /\ Cardinality(DeletesOf(1)) = 2
    /\ Cardinality(DeletesOf(2)) = 1

-----------------------------------------------------------------------------
(* The specifications *)

RefNext ==
    \/ CallGetIdentifier
    \/ CallGetName
    \/ CallGetRegistry
    \/ CallGetPath
    \/ CallGetShortName
    \/ CallGetRegistryBaseUrl
    \/ CallIsDigestRef
    \/ CallIsTagRef

RefSpecInit == RefInit /\ AuthIdle /\ ClientIdle /\ SizeIdle /\ LibIdle

RefSpec ==
    /\ RefSpecInit
    /\ [][RefNext /\ UNCHANGED <<authVars, clientVars, sizeVars, libVars>>]_vars

AuthNext == CallGetRegistryAuth

AuthSpecInit == AuthInit /\ RefIdle /\ ClientIdle /\ SizeIdle /\ LibIdle

AuthSpec ==
    /\ AuthSpecInit
    /\ [][AuthNext /\ UNCHANGED <<refVars, clientVars, sizeVars, libVars>>]_vars

ClientNext ==
    \/ \E k \in OpKinds, r \in ClientRefs, a \in ClientAuthMaps :
          Start(k.kind, k.impl, r, a)
    \/ \E st \in Statuses, ch \in {NoHeader} \cup Challenges : Respond1(st, ch)
    \/ \E st \in Statuses, body \in {"token", "no token"} : TokenRespond(st, body)
    \/ \E st \in Statuses : Respond2(st)
    \/ Return

ClientSpecInit == ClientIdle /\ AuthIdle /\ RefIdle /\ SizeIdle /\ LibIdle

ClientSpec ==
    /\ ClientSpecInit
    /\ [][ClientNext /\ UNCHANGED <<refVars, authRef, authOut, sizeVars, libVars>>]_vars

ManifestNext ==
    \/ CallManifestGetSize
    \/ \E k \in 1..(MaxLayers + 1) : AppendLayerCopy(k)

ManifestSpecInit == ManifestInit /\ RefIdle /\ AuthIdle /\ ClientIdle /\ LibIdle

ManifestSpec ==
    /\ ManifestSpecInit
    /\ [][ManifestNext /\ UNCHANGED <<refVars, authVars, clientVars, libVars>>]_vars

FatNext ==
    \/ StartImageGetSize
    \/ \E o \in ChildOutcomes : ChildRespond(o)

FatSpecInit == FatInit /\ RefIdle /\ AuthIdle /\ ClientIdle /\ LibIdle

FatSpec ==
    /\ FatSpecInit
    /\ [][FatNext /\ UNCHANGED <<refVars, authVars, clientVars, libVars>>]_vars

ListNext ==
    \/ \E d \in ListDocs : AppendImage(d)
    \/ CallListGetSize

ListSpecInit == ListInit /\ RefIdle /\ AuthIdle /\ ClientIdle /\ LibIdle

ListSpec ==
    /\ ListSpecInit
    /\ [][ListNext /\ UNCHANGED <<refVars, authVars, clientVars, libVars>>]_vars

DocNext ==
    \/ \E im \in {"manifestfactory", "containerimage"} : CallCreate(im)
    \/ \E i \in 1..Len(Variants) : CallValidateStatic(Variants[i])
    \/ CallValidate

DocSpecInit ==
    /\ DocInit
    /\ RefIdle /\ AuthIdle /\ ClientIdle /\ SizeIdle
    /\ DigestIdle
    /\ DiffIdle
    /\ DescriptorIdle
    /\ PlatformIdle
    /\ DeleteIdle

DocSpec ==
    /\ DocSpecInit
    /\ [][DocNext /\ UNCHANGED <<refVars, authVars, clientVars, sizeVars,
            digestVars, diffVars, descriptorVars, platformVars,
            deleteVars>>]_vars

DigestNext == \E im \in {"client", "containerimage"} : CallGetDigest(im)

DigestSpecInit ==
    /\ DigestInit
    /\ RefIdle /\ AuthIdle /\ ClientIdle /\ SizeIdle
    /\ DocIdle
    /\ DiffIdle
    /\ DescriptorIdle
    /\ PlatformIdle
    /\ DeleteIdle

DigestSpec ==
    /\ DigestSpecInit
    /\ [][DigestNext /\ UNCHANGED <<refVars, authVars, clientVars, sizeVars,
            docVars, diffVars, descriptorVars, platformVars, deleteVars>>]_vars

DiffNext == CallDiff

DiffSpecInit ==
    /\ DiffInit
    /\ RefIdle /\ AuthIdle /\ ClientIdle /\ SizeIdle
    /\ DocIdle
    /\ DigestIdle
    /\ DescriptorIdle
    /\ PlatformIdle
    /\ DeleteIdle

DiffSpec ==
    /\ DiffSpecInit
    /\ [][DiffNext /\ UNCHANGED <<refVars, authVars, clientVars, sizeVars,
            docVars, digestVars, descriptorVars, platformVars,
            deleteVars>>]_vars

DescriptorNext == CallDescriptorNew

DescriptorSpecInit ==
    /\ DescriptorInit
    /\ RefIdle /\ AuthIdle /\ ClientIdle /\ SizeIdle
    /\ DocIdle
    /\ DigestIdle
    /\ DiffIdle
    /\ PlatformIdle
    /\ DeleteIdle

DescriptorSpec ==
    /\ DescriptorSpecInit
    /\ [][DescriptorNext /\ UNCHANGED <<refVars, authVars, clientVars, sizeVars,
            docVars, digestVars, diffVars, platformVars, deleteVars>>]_vars

PlatformNext ==
    \/ CallGetPlatforms
    \/ CallHostPlatformManifest

PlatformSpecInit ==
    /\ PlatformInit
    /\ RefIdle /\ AuthIdle /\ ClientIdle /\ SizeIdle
    /\ DocIdle
    /\ DigestIdle
    /\ DiffIdle
    /\ DescriptorIdle
    /\ DeleteIdle

PlatformSpec ==
    /\ PlatformSpecInit
    /\ [][PlatformNext /\ UNCHANGED <<refVars, authVars, clientVars, sizeVars,
            docVars, digestVars, diffVars, descriptorVars, deleteVars>>]_vars

DeleteNext ==
    \/ CallListDelete
    \/ \E o \in DeleteOutcomes : ImageDelete(o)

DeleteSpecInit ==
    /\ DeleteInit
    /\ RefIdle /\ AuthIdle /\ ClientIdle /\ SizeIdle
    /\ DocIdle
    /\ DigestIdle
    /\ DiffIdle
    /\ DescriptorIdle
    /\ PlatformIdle

DeleteSpec ==
    /\ DeleteSpecInit
    /\ [][DeleteNext /\ UNCHANGED <<refVars, authVars, clientVars, sizeVars,
            docVars, digestVars, diffVars, descriptorVars, platformVars>>]_vars

=============================================================================
